---------------------------- MODULE Spec2Model ----------------------------
(***************************************************************************)
(* VanityMask (VanitySearch fork): the CPU batch engine, the match         *)
(* reconstruction, the found-flag bookkeeping, the output section and the  *)
(* orchestrator, modelled from src/Vanity.cpp.                             *)
(*                                                                         *)
(* Scale: secp256k1 (p, n about 2^256) is replaced by the curve            *)
(* y^2 = x^3 + 7 over F_43, which has prime order 31 and the same          *)
(* endomorphism structure (43 = 1 mod 3, 31 = 1 mod 3).  The group size    *)
(* CPU_GRP_SIZE = 1024 is scaled to 2*HalfGrp.                             *)
(***************************************************************************)
EXTENDS Integers, Sequences, FiniteSets, TLC

(***************************************************************************)
(* Bounds of the model.                                                    *)
(***************************************************************************)
HalfGrp == 2           \* CPU_GRP_SIZE / 2
MaxPass == 2           \* passes a CPU worker of SpecCPU may start
NbWorkers == 2         \* worker threads of SpecFound
NbItems == 2           \* registered targets of SpecFound
MaxHits == 2           \* candidates the workers report in SpecFound

(***************************************************************************)
(* Curve constants (scaled).                                               *)
(***************************************************************************)
P == 43                \* field prime
N == 31                \* group order
beta == 6              \* beta^3 = 1 mod P
beta2 == 36            \* beta^2 mod P
lambda == 5            \* lambda^3 = 1 mod N
lambda2 == 25          \* lambda^2 mod N

CPU_GRP_SIZE == 2 * HalfGrp

Field == 0 .. (P - 1)

(***************************************************************************)
(* Int: modular arithmetic on field elements (mod P) and scalars (mod N).  *)
(***************************************************************************)
ModAdd(a, b) == (a + b) % P
ModSub(a, b) == (a + P - b) % P
ModNeg(a) == (P - a) % P
ModMulK1(a, b) == (a * b) % P
ModSquareK1(a) == (a * a) % P
ModMulK1order(a, b) == (a * b) % N

\* k.Neg(); k.Add(&secp->order): the two's complement negation followed by
\* the addition of the order, on the integer k (not reduced).
NegAddOrder(k) == N - k

\* Int::ModInv: the inverse in the field; of zero it is undefined and z
\* stands for whatever the routine leaves.
InvTable == [a \in 1 .. (P - 1) |-> CHOOSE b \in 1 .. (P - 1) : (a * b) % P = 1]
ModInv(a, z) == IF a = 0 THEN z ELSE InvTable[a]

(***************************************************************************)
(* Points are records [x, y]; the zero point (Point::isZero) stands for    *)
(* "no point" / the point at infinity.                                     *)
(***************************************************************************)
Pt(x, y) == [x |-> x, y |-> y]
ZeroPt == Pt(0, 0)
isZero(p) == p.x = 0 /\ p.y = 0

Gpt == Pt(2, 12)       \* secp->G

\* Secp256K1::AddDirect / DoubleDirect: affine group law.
DoubleDirect(p) ==
  IF isZero(p) \/ p.y = 0 THEN ZeroPt
  ELSE LET s == ModMulK1(ModMulK1(3, ModSquareK1(p.x)), ModInv(ModAdd(p.y, p.y), 0))
           x == ModSub(ModSub(ModSquareK1(s), p.x), p.x)
           y == ModSub(ModMulK1(s, ModSub(p.x, x)), p.y)
       IN Pt(x, y)

AddDirect(p1, p2) ==
  IF isZero(p1) THEN p2
  ELSE IF isZero(p2) THEN p1
  ELSE IF p1.x = p2.x
       THEN (IF p1.y = p2.y THEN DoubleDirect(p1) ELSE ZeroPt)
  ELSE LET s == ModMulK1(ModSub(p2.y, p1.y), ModInv(ModSub(p2.x, p1.x), 0))
           x == ModSub(ModSub(ModSquareK1(s), p1.x), p2.x)
           y == ModSub(ModMulK1(s, ModSub(p1.x, x)), p1.y)
       IN Pt(x, y)

\* Secp256K1::ComputePublicKey: k*G by double-and-add, k taken modulo N.
RECURSIVE ScalarMult(_, _)
ScalarMult(k, p) ==
  IF k = 0 THEN ZeroPt
  ELSE LET h == DoubleDirect(ScalarMult(k \div 2, p))
       IN IF k % 2 = 1 THEN AddDirect(h, p) ELSE h

ComputePublicKey(k) == ScalarMult(k % N, Gpt)

(***************************************************************************)
(* Generator table: Gn[i] = (i+1)*G, _2Gn = CPU_GRP_SIZE*G.                *)
(***************************************************************************)
Gn[i \in 0 .. (HalfGrp - 1)] ==
  IF i = 0 THEN Gpt
  ELSE IF i = 1 THEN DoubleDirect(Gpt)
  ELSE AddDirect(Gn[i - 1], Gpt)

_2Gn == DoubleDirect(Gn[HalfGrp - 1])

(***************************************************************************)
(* State.                                                                  *)
(***************************************************************************)
VARIABLES
  startPubKey,     \* offset-mode public key, ZeroPt when not specified
  rekey,           \* rekey period (0: keys derived from startKey)
  startKey,        \* seed-derived base key
  searchMode,      \* "compressed" or "uncompressed"
  stopWhenFound,
  endOfSearch,
  key,             \* FindKeyCPU: base key of the current group
  startP,          \* FindKeyCPU: centre point of the current group
  pts,             \* FindKeyCPU: pts[0 .. CPU_GRP_SIZE-1]
  wr,              \* number of writes to each pts slot in the current pass
  cpc,             \* FindKeyCPU: position of the worker
  ci,              \* FindKeyCPU: index of the check loop
  nPass,           \* passes started
  rekeyRequest,    \* ph->rekeyRequest
  counter,         \* counters[thId]
  patternFound,    \* patternFound[0] (one wildcard pattern)
  nbFoundKey,
  nbWarn,          \* "Warning, wrong private key generated" lines printed
  sink             \* records written by output()

cpuVars == <<startPubKey, rekey, startKey, searchMode, stopWhenFound, endOfSearch,
             key, startP, pts, wr, cpc, ci, nPass, rekeyRequest, counter,
             patternFound, nbFoundKey, nbWarn, sink>>

VARIABLES
  fmode,           \* "prefix" (lookup table, full addresses) or "mask"
  hasOutFile,      \* outputFile.length() > 0
  usedPrefix,      \* the 16-bit prefixes that have items, in insertion order
  items,           \* items[q]: the targets registered under prefix q
  itemFound,       \* *(item.found), one flag per target
  prefFound,       \* prefixes[q].found
  mutex,           \* ghMutex: 0 when free, else the worker holding it
  fpc,             \* position of each worker in checkAddr / output / updateFound
  cur,             \* the target the worker's candidate matches
  needToClose,     \* output(): the file was opened
  tmpNb,           \* nbFoundKey++: the value read
  ui, uj,          \* updateFound(): loop indices
  iFound, allFound,\* updateFound(): locals
  verified,        \* the reported candidate's key was re-evaluated
  hits             \* candidates the workers have reported so far

foundVars == <<fmode, hasOutFile, usedPrefix, items, itemFound, prefFound, mutex, fpc,
               cur, needToClose, tmpNb, ui, uj, iFound, allFound, verified,
               hits>>

VARIABLES
  isRunning,       \* TH_PARAM.isRunning of each worker
  hasStarted,      \* TH_PARAM.hasStarted of each worker
  wpc,             \* position of each worker thread in FindKeyCPU / FindKeyGPU
  gpuOk,           \* FindKeyGPU: the local ok
  passes,          \* passes each worker has started
  spc              \* position of Search()

searchVars == <<isRunning, hasStarted, wpc, gpuOk, passes, spc>>

baseVars == <<cpuVars, foundVars, searchVars>>

(***************************************************************************)
(* The key counters: counters[thId], written by the worker with that       *)
(* thread id (FindKeyCPU line 1803, FindKeyGPU lines 2195-2208) and summed *)
(* by getCPUCount / getGPUCount.                                           *)
(***************************************************************************)
VARIABLES
  nbCPUThread,     \* number of CPU worker threads
  nbGPUThread,     \* number of GPU worker threads
  counters,        \* counters[slot]
  cpos,            \* position of each counting worker: "new" or "run"
  cadds            \* passes each worker has counted so far

countVars == <<nbCPUThread, nbGPUThread, counters, cpos, cadds>>

MaxCpuThreads == 3     \* largest nbCPUThread of SpecCount
MaxGpuThreads == 2     \* largest nbGPUThread of SpecCount
MaxAdds == 2           \* passes a worker of SpecCount counts

\* The thread id of the first GPU worker (0x80 in the program, line 2332),
\* scaled.
GpuThreadBase == 2

CpuIds == 0 .. (MaxCpuThreads - 1)
GpuIds == 0 .. (MaxGpuThreads - 1)
CountWorkers == [kind : {"cpu"}, i : CpuIds] \cup [kind : {"gpu"}, i : GpuIds]
Slots == 0 .. (GpuThreadBase + MaxCpuThreads + MaxGpuThreads)

CountIdle ==
  /\ nbCPUThread = 0
  /\ nbGPUThread = 0
  /\ counters = [sl \in Slots |-> 0]
  /\ cpos = [w \in CountWorkers |-> "new"]
  /\ cadds = [w \in CountWorkers |-> 0]

(***************************************************************************)
(* The base keys of the CPU workers: getCPUStartingKey gives thread thId   *)
(* its key, FindKeyCPU advances it by CPU_GRP_SIZE per pass.               *)
(***************************************************************************)
VARIABLES
  tkey,            \* FindKeyCPU of each thread: key
  tbase,           \* the key getCPUStartingKey last gave the thread
  tpos             \* position of each thread: "new" or "run"

keyVars == <<tkey, tbase, tpos>>

MaxScanPasses == 9     \* passes a thread of SpecKeys makes with one base key

\* CPU thread ids of SpecKeys
KeyThreads == 0 .. (NbWorkers - 1)

KeyIdle ==
  /\ tkey = [t \in KeyThreads |-> 0]
  /\ tbase = [t \in KeyThreads |-> 0]
  /\ tpos = [t \in KeyThreads |-> "new"]



(***************************************************************************)
(* Rekey requests: the flags of TH_PARAM that Search() sets and the CPU    *)
(* threads clear, with the keys counted and the keys refreshed.            *)
(***************************************************************************)
VARIABLES
  thRekeyRequest, \* params[i].rekeyRequest
  thHasStarted,   \* params[i].hasStarted
  rkPos,          \* position of thread i in FindKeyCPU
  rkCount,        \* counters[i]
  rkGen,          \* number of base keys thread i has taken
  rkSet,          \* rkGen[i] when rekeyRequest of thread i was last set
  lastRekey       \* lastRekey of Search()

rekeyVars == <<thRekeyRequest, thHasStarted, rkPos, rkCount, rkGen, rkSet, lastRekey>>

MaxRekeyPasses == 3    \* passes a thread of SpecRekey makes
RekeyUnit == 24        \* 1000000 scaled (line 2410)

RekeyThreads == 0 .. (NbWorkers - 1)

RekeyIdle ==
  /\ thRekeyRequest = [t \in RekeyThreads |-> FALSE]
  /\ thHasStarted = [t \in RekeyThreads |-> FALSE]
  /\ rkPos = [t \in RekeyThreads |-> "new"]
  /\ rkCount = [t \in RekeyThreads |-> 0]
  /\ rkGen = [t \in RekeyThreads |-> 0]
  /\ rkSet = [t \in RekeyThreads |-> 0]
  /\ lastRekey = 0

(***************************************************************************)
(* Key reconstruction: one report (base key, incr, endomorphism) and the   *)
(* scalar each reconstruction path of the host computes from it.           *)
(***************************************************************************)
VARIABLES
  rcKey,   \* the base key the pass or the kernel started from
  rcIncr,  \* incr of the report
  rcEndo,  \* endomorphism of the report
  rcOut,   \* the scalar computed by each path
  rcDone   \* the paths that have run

reconVars == <<rcKey, rcIncr, rcEndo, rcOut, rcDone>>

ReconPaths == {"checkPrivKey", "checkStegoMask", "FindKeyGPU"}

ReconIdle ==
  /\ rcKey = 0
  /\ rcIncr = 0
  /\ rcEndo = 0
  /\ rcOut = [p \in ReconPaths |-> 0]
  /\ rcDone = {}

(***************************************************************************)
(* Mask mode: the target of the search (StegoTarget), the comparisons the  *)
(* CPU and the GPU path make for each point of a group, and the items and  *)
(* the counter of the GPU path.                                            *)
(***************************************************************************)
VARIABLES
  stegoValue,  \* stegoTarget.value[4] / _stego_value[4]
  stegoMask,   \* stegoTarget.mask[4] / _stego_mask[4]
  cmpCpu,      \* mask comparisons checkStegoMaskAll made for pts[i]
  cmpGpu,      \* mask comparisons ComputeKeysStego made for the point of incr i
  gpc,         \* points ComputeKeysStego has checked; GpuGroupSize + 1 once counted
  gpuItems,    \* the items the kernel has written
  gpuCounter   \* counters[thId] of the GPU thread

stegoVars == <<stegoValue, stegoMask, cmpCpu, cmpGpu, gpc, gpuItems, gpuCounter>>

LimbIds == 0 .. 3

StegoIdle ==
  /\ stegoValue = [j \in LimbIds |-> 0]
  /\ stegoMask = [j \in LimbIds |-> 0]
  /\ cmpCpu = [i \in 0 .. (CPU_GRP_SIZE - 1) |-> 0]
  /\ cmpGpu = [i \in 0 .. (CPU_GRP_SIZE - 1) |-> 0]
  /\ gpc = 0
  /\ gpuItems = << >>
  /\ gpuCounter = 0

(***************************************************************************)
(* The prefix lookup of the kernel (CheckPoint): the tables, the hash      *)
(* under test, the locals of the binary search and the output buffer.      *)
(***************************************************************************)
VARIABLES
  prefixTab,   \* prefix[]: per 16-bit prefix, the number of targets
  lookup32,    \* lookup32[]: the offsets, then the ascending slices
  hasLookup32, \* lookup32 # NULL
  l32,         \* _h[0], the first 32 bits of the hash
  st, ed, mi,  \* locals of CheckPoint; mi = -1 before the first probe
  kpc,         \* position in CheckPoint
  outPos,      \* out[0], the number of items taken
  added,       \* this call reached addItem (atomicAdd)
  stored       \* this call wrote its item into out[]

lookupVars == <<prefixTab, lookup32, hasLookup32, l32, st, ed, mi, kpc, outPos, added, stored>>

MaxSlice == 3      \* most targets under one 16-bit prefix
MaxFound == 1      \* maxFound, the capacity of out[]
NbPrefix16 == 2    \* 2^16 scaled: the number of short prefixes
NbExt == 4         \* 2^16 scaled: the extensions of a short prefix to 32 bits
U32 == 64          \* 2^32 scaled: the width of st, ed, mi

Prefixes16 == 0 .. (NbPrefix16 - 1)

LookupIdle ==
  /\ prefixTab = [q \in Prefixes16 |-> 0]
  /\ lookup32 = << >>
  /\ hasLookup32 = FALSE
  /\ l32 = 0
  /\ st = 0 /\ ed = 0 /\ mi = -1
  /\ kpc = "idle"
  /\ outPos = 0
  /\ added = FALSE
  /\ stored = FALSE

(***************************************************************************)
(* Taproot mode: one thread of the GPU engine, its host key, its device    *)
(* point, and the hits the host has reconstructed.                         *)
(***************************************************************************)
VARIABLES
  tpD,        \* the private scalar d of the scenario
  tpValue,    \* _stego_value: the limbs of Q.x
  tpMask,     \* _stego_mask
  tpKeys,     \* keys[thId] of the host
  tpP,        \* the device's point (startx, starty)
  tpPending,  \* the last kernel matched; its item is retrieved by the next launch
  tpLaunches, \* launches made
  tpReports,  \* the scalars the host has written
  tpc         \* "new" before SetKeys, then "run"

taprootVars == <<tpD, tpValue, tpMask, tpKeys, tpP, tpPending, tpLaunches, tpReports, tpc>>

MaxLaunch == 4     \* launches of SpecTaproot

TaprootIdle ==
  /\ tpD = 0
  /\ tpValue = [j \in LimbIds |-> 0]
  /\ tpMask = [j \in LimbIds |-> 0]
  /\ tpKeys = 0
  /\ tpP = ZeroPt
  /\ tpPending = FALSE
  /\ tpLaunches = 0
  /\ tpReports = {}
  /\ tpc = "idle"

(***************************************************************************)
(* Construction: the prefixes given to the constructor, its loop over      *)
(* them, and how it ends.                                                  *)
(***************************************************************************)
VARIABLES
  inputPrefixes, \* the prefixes supplied, each by its address type and form
  ip,            \* the loop index i of the constructor, from 1
  nbPrefix,      \* the prefixes accepted
  searchType,    \* -1 ("none") until the first typed prefix
  ignored,       \* the indexes reported as "Ignoring prefix"
  ctorPc         \* "loop", "check", then "exit" (exit(1)) or "ready"

ctorVars == <<inputPrefixes, ip, nbPrefix, searchType, ignored, ctorPc>>

MaxPrefixes == 3   \* most prefixes supplied in SpecCtor

CtorIdle ==
  /\ inputPrefixes = << >>
  /\ ip = 1
  /\ nbPrefix = 0
  /\ searchType = "none"
  /\ ignored = {}
  /\ ctorPc = "idle"

(***************************************************************************)
(* The GPU worker's loop in mask/sig mode: the host keys, the kernel in    *)
(* flight, the results retrieved by a launch and the keys reconstructed.   *)
(***************************************************************************)
VARIABLES
  tmKeys,      \* keys[thId] on the host
  tmFlight,    \* the set of [base, incr] hits of the kernel in flight
  tmFound,     \* the hits retrieved by the last launch, not yet handled
  tmRekeyReq,  \* ph->rekeyRequest
  tmRecon,     \* the [base, incr, key] reconstructions made
  tmLaunches,  \* launches so far
  tmPc         \* "top", "launch", "items", "adv" ("idle" outside SpecTiming)

timingVars == <<tmKeys, tmFlight, tmFound, tmRekeyReq, tmRecon, tmLaunches, tmPc>>

TimingIdle ==
  /\ tmKeys = 0
  /\ tmFlight = {}
  /\ tmFound = {}
  /\ tmRekeyReq = FALSE
  /\ tmRecon = {}
  /\ tmLaunches = 0
  /\ tmPc = "idle"

(***************************************************************************)
(* The GPU result buffer out[] of one kernel: the counter out[0], the item *)
(* words behind it, and the lanes that report hits.                        *)
(***************************************************************************)
VARIABLES
  out0,      \* out[0], the atomic counter of hits
  outWords,  \* out[1 ..]: for each word the hit that wrote it, or NoHit
  lanePc,    \* per lane: "check", "add", "store" ("idle" outside SpecBuffer)
  lanePos,   \* per lane: pos, the value atomicAdd returned
  laneLeft,  \* per lane: the points still to check
  taken      \* the [pos, hit] pairs handed out by atomicAdd

bufferVars == <<out0, outWords, lanePc, lanePos, laneLeft, taken>>

NbLanes == 2          \* lanes of the kernel in SpecBuffer
PointsPerLane == 2    \* points each lane checks
StegoMaxFound == 2    \* maxFound of SpecBuffer
ITEM_SIZE32 == 7      \* 32-bit words per item: the words written per hit

Lanes == 1 .. NbLanes
NoHit == <<0, 0>>
BufWords == (StegoMaxFound + 2) * ITEM_SIZE32

BufferIdle ==
  /\ out0 = 0
  /\ outWords = << >>
  /\ lanePc = << >>
  /\ lanePos = << >>
  /\ laneLeft = << >>
  /\ taken = {}

(***************************************************************************)
(* ModInvOrder: the argument a and the locals of its loop.                 *)
(***************************************************************************)
VARIABLES
  miA,       \* the argument a
  miU,       \* u
  miV,       \* v
  miX1,      \* x1
  miX2,      \* x2
  miResult,  \* *result
  miPc       \* "loop", "done" ("idle" outside SpecModInv)

modInvVars == <<miA, miU, miV, miX1, miX2, miResult, miPc>>

ModInvIdle ==
  /\ miA = 0
  /\ miU = 0
  /\ miV = 0
  /\ miX1 = 0
  /\ miX2 = 0
  /\ miResult = 0
  /\ miPc = "idle"

(***************************************************************************)
(* Signature mode: the nonce of a match, the message hash and signing key  *)
(* supplied, and the signature computed by the GPU handler.                *)
(***************************************************************************)
VARIABLES
  sgK,     \* nonce_k, the key reconstructed for the match
  sgZ,     \* sigMsgHash
  sgD,     \* sigPrivKey
  sgPub,   \* pubKey = nonce_k * G
  sgR,     \* r_val
  sgS,     \* s_val
  sgPc     \* "nonce", "ecdsa", "lows", "done" ("idle" outside SpecSig)

sigVars == <<sgK, sgZ, sgD, sgPub, sgR, sgS, sgPc>>

SigIdle ==
  /\ sgK = 0
  /\ sgZ = 0
  /\ sgD = 0
  /\ sgPub = ZeroPt
  /\ sgR = 0
  /\ sgS = 0
  /\ sgPc = "idle"

(***************************************************************************)
(* The mask target of StegoTarget.h: the hex string given, the limbs and   *)
(* the mask built from it, and the hex string printed back.                *)
(***************************************************************************)
VARIABLES
  hxIn,     \* the hex string, a sequence of characters
  hxValue,  \* value[4]
  hxRet,    \* what parseHexToLimbsMSB returned
  hxMask,   \* mask[4]
  hxBits,   \* numBits
  hxOut,    \* the string limbsToHex wrote
  hxPc      \* "parse", "mask", "count", "print", "done" ("idle" outside SpecHex)

hexVars == <<hxIn, hxValue, hxRet, hxMask, hxBits, hxOut, hxPc>>

BytesPerLimb == 2   \* 8 in the source: a limb is a uint64_t

HexIdle ==
  /\ hxIn = << >>
  /\ hxValue = << >>
  /\ hxRet = 0
  /\ hxMask = << >>
  /\ hxBits = 0
  /\ hxOut = << >>
  /\ hxPc = "idle"

(***************************************************************************)
(* ModReduceOrder on the kernel's scalar: the scalar of four limbs, the    *)
(* limbs of the difference and the borrow of SubtractOrder.                *)
(***************************************************************************)
VARIABLES
  rdS,        \* the scalar handed to ModReduceOrder, as a number
  rdScalar,   \* scalar[4]
  rdReduced,  \* reduced[4]
  rdBorrow,   \* borrow
  rdI,        \* the limb index of SubtractOrder's loop
  rdPc        \* "compare", "sub", "copy", "done" ("idle" outside SpecReduce)

reduceVars == <<rdS, rdScalar, rdReduced, rdBorrow, rdI, rdPc>>

ReduceIdle ==
  /\ rdS = 0
  /\ rdScalar = << >>
  /\ rdReduced = << >>
  /\ rdBorrow = 0
  /\ rdI = 0
  /\ rdPc = "idle"

extraVars == <<countVars, keyVars, rekeyVars, reconVars, stegoVars, lookupVars, taprootVars, ctorVars, timingVars, bufferVars, modInvVars, sigVars, hexVars, reduceVars>>
ExtraIdle ==
  /\ CountIdle
  /\ KeyIdle
  /\ RekeyIdle
  /\ ReconIdle
  /\ StegoIdle
  /\ LookupIdle
  /\ TaprootIdle
  /\ CtorIdle
  /\ TimingIdle
  /\ BufferIdle
  /\ ModInvIdle
  /\ SigIdle
  /\ HexIdle
  /\ ReduceIdle
restOfCount == <<keyVars, rekeyVars, reconVars, stegoVars, lookupVars, taprootVars, ctorVars, timingVars, bufferVars, modInvVars, sigVars, hexVars, reduceVars>>
RestIdleCount ==
  /\ KeyIdle
  /\ RekeyIdle
  /\ ReconIdle
  /\ StegoIdle
  /\ LookupIdle
  /\ TaprootIdle
  /\ CtorIdle
  /\ TimingIdle
  /\ BufferIdle
  /\ ModInvIdle
  /\ SigIdle
  /\ HexIdle
  /\ ReduceIdle
restOfKeys == <<countVars, rekeyVars, reconVars, stegoVars, lookupVars, taprootVars, ctorVars, timingVars, bufferVars, modInvVars, sigVars, hexVars, reduceVars>>
RestIdleKeys ==
  /\ CountIdle
  /\ RekeyIdle
  /\ ReconIdle
  /\ StegoIdle
  /\ LookupIdle
  /\ TaprootIdle
  /\ CtorIdle
  /\ TimingIdle
  /\ BufferIdle
  /\ ModInvIdle
  /\ SigIdle
  /\ HexIdle
  /\ ReduceIdle
restOfRekey == <<countVars, keyVars, reconVars, stegoVars, lookupVars, taprootVars, ctorVars, timingVars, bufferVars, modInvVars, sigVars, hexVars, reduceVars>>
RestIdleRekey ==
  /\ CountIdle
  /\ KeyIdle
  /\ ReconIdle
  /\ StegoIdle
  /\ LookupIdle
  /\ TaprootIdle
  /\ CtorIdle
  /\ TimingIdle
  /\ BufferIdle
  /\ ModInvIdle
  /\ SigIdle
  /\ HexIdle
  /\ ReduceIdle
restOfRecon == <<countVars, keyVars, rekeyVars, stegoVars, lookupVars, taprootVars, ctorVars, timingVars, bufferVars, modInvVars, sigVars, hexVars, reduceVars>>
RestIdleRecon ==
  /\ CountIdle
  /\ KeyIdle
  /\ RekeyIdle
  /\ StegoIdle
  /\ LookupIdle
  /\ TaprootIdle
  /\ CtorIdle
  /\ TimingIdle
  /\ BufferIdle
  /\ ModInvIdle
  /\ SigIdle
  /\ HexIdle
  /\ ReduceIdle
restOfStego == <<countVars, keyVars, rekeyVars, reconVars, lookupVars, taprootVars, ctorVars, timingVars, bufferVars, modInvVars, sigVars, hexVars, reduceVars>>
RestIdleStego ==
  /\ CountIdle
  /\ KeyIdle
  /\ RekeyIdle
  /\ ReconIdle
  /\ LookupIdle
  /\ TaprootIdle
  /\ CtorIdle
  /\ TimingIdle
  /\ BufferIdle
  /\ ModInvIdle
  /\ SigIdle
  /\ HexIdle
  /\ ReduceIdle
restOfLookup == <<countVars, keyVars, rekeyVars, reconVars, stegoVars, taprootVars, ctorVars, timingVars, bufferVars, modInvVars, sigVars, hexVars, reduceVars>>
RestIdleLookup ==
  /\ CountIdle
  /\ KeyIdle
  /\ RekeyIdle
  /\ ReconIdle
  /\ StegoIdle
  /\ TaprootIdle
  /\ CtorIdle
  /\ TimingIdle
  /\ BufferIdle
  /\ ModInvIdle
  /\ SigIdle
  /\ HexIdle
  /\ ReduceIdle
restOfTaproot == <<countVars, keyVars, rekeyVars, reconVars, stegoVars, lookupVars, ctorVars, timingVars, bufferVars, modInvVars, sigVars, hexVars, reduceVars>>
RestIdleTaproot ==
  /\ CountIdle
  /\ KeyIdle
  /\ RekeyIdle
  /\ ReconIdle
  /\ StegoIdle
  /\ LookupIdle
  /\ CtorIdle
  /\ TimingIdle
  /\ BufferIdle
  /\ ModInvIdle
  /\ SigIdle
  /\ HexIdle
  /\ ReduceIdle
restOfCtor == <<countVars, keyVars, rekeyVars, reconVars, stegoVars, lookupVars, taprootVars, timingVars, bufferVars, modInvVars, sigVars, hexVars, reduceVars>>
RestIdleCtor ==
  /\ CountIdle
  /\ KeyIdle
  /\ RekeyIdle
  /\ ReconIdle
  /\ StegoIdle
  /\ LookupIdle
  /\ TaprootIdle
  /\ TimingIdle
  /\ BufferIdle
  /\ ModInvIdle
  /\ SigIdle
  /\ HexIdle
  /\ ReduceIdle
restOfTiming == <<countVars, keyVars, rekeyVars, reconVars, stegoVars, lookupVars, taprootVars, ctorVars, bufferVars, modInvVars, sigVars, hexVars, reduceVars>>
RestIdleTiming ==
  /\ CountIdle
  /\ KeyIdle
  /\ RekeyIdle
  /\ ReconIdle
  /\ StegoIdle
  /\ LookupIdle
  /\ TaprootIdle
  /\ CtorIdle
  /\ BufferIdle
  /\ ModInvIdle
  /\ SigIdle
  /\ HexIdle
  /\ ReduceIdle
restOfBuffer == <<countVars, keyVars, rekeyVars, reconVars, stegoVars, lookupVars, taprootVars, ctorVars, timingVars, modInvVars, sigVars, hexVars, reduceVars>>
RestIdleBuffer ==
  /\ CountIdle
  /\ KeyIdle
  /\ RekeyIdle
  /\ ReconIdle
  /\ StegoIdle
  /\ LookupIdle
  /\ TaprootIdle
  /\ CtorIdle
  /\ TimingIdle
  /\ ModInvIdle
  /\ SigIdle
  /\ HexIdle
  /\ ReduceIdle
restOfModInv == <<countVars, keyVars, rekeyVars, reconVars, stegoVars, lookupVars, taprootVars, ctorVars, timingVars, bufferVars, sigVars, hexVars, reduceVars>>
RestIdleModInv ==
  /\ CountIdle
  /\ KeyIdle
  /\ RekeyIdle
  /\ ReconIdle
  /\ StegoIdle
  /\ LookupIdle
  /\ TaprootIdle
  /\ CtorIdle
  /\ TimingIdle
  /\ BufferIdle
  /\ SigIdle
  /\ HexIdle
  /\ ReduceIdle
restOfSig == <<countVars, keyVars, rekeyVars, reconVars, stegoVars, lookupVars, taprootVars, ctorVars, timingVars, bufferVars, modInvVars, hexVars, reduceVars>>
RestIdleSig ==
  /\ CountIdle
  /\ KeyIdle
  /\ RekeyIdle
  /\ ReconIdle
  /\ StegoIdle
  /\ LookupIdle
  /\ TaprootIdle
  /\ CtorIdle
  /\ TimingIdle
  /\ BufferIdle
  /\ ModInvIdle
  /\ HexIdle
  /\ ReduceIdle
restOfHex == <<countVars, keyVars, rekeyVars, reconVars, stegoVars, lookupVars, taprootVars, ctorVars, timingVars, bufferVars, modInvVars, sigVars, reduceVars>>
RestIdleHex ==
  /\ CountIdle
  /\ KeyIdle
  /\ RekeyIdle
  /\ ReconIdle
  /\ StegoIdle
  /\ LookupIdle
  /\ TaprootIdle
  /\ CtorIdle
  /\ TimingIdle
  /\ BufferIdle
  /\ ModInvIdle
  /\ SigIdle
  /\ ReduceIdle
restOfReduce == <<countVars, keyVars, rekeyVars, reconVars, stegoVars, lookupVars, taprootVars, ctorVars, timingVars, bufferVars, modInvVars, sigVars, hexVars>>
RestIdleReduce ==
  /\ CountIdle
  /\ KeyIdle
  /\ RekeyIdle
  /\ ReconIdle
  /\ StegoIdle
  /\ LookupIdle
  /\ TaprootIdle
  /\ CtorIdle
  /\ TimingIdle
  /\ BufferIdle
  /\ ModInvIdle
  /\ SigIdle
  /\ HexIdle

Workers == 1 .. NbWorkers
Items == 1 .. NbItems
Buckets == 1 .. NbItems

\* Workers with an odd number are CPU workers (FindKeyCPU), the others GPU
\* workers (FindKeyGPU).
Kind(w) == IF w % 2 = 1 THEN "cpu" ELSE "gpu"

\* The found-flag state when no worker of this kind runs.
FoundIdle ==
  /\ fmode = "prefix"
  /\ hasOutFile = FALSE
  /\ usedPrefix = << >>
  /\ items = [q \in Buckets |-> << >>]
  /\ itemFound = [t \in Items |-> FALSE]
  /\ prefFound = [q \in Buckets |-> TRUE]
  /\ mutex = 0
  /\ fpc = [w \in Workers |-> "done"]
  /\ cur = [w \in Workers |-> 0]
  /\ needToClose = [w \in Workers |-> FALSE]
  /\ tmpNb = [w \in Workers |-> 0]
  /\ ui = [w \in Workers |-> 0]
  /\ uj = [w \in Workers |-> 0]
  /\ iFound = [w \in Workers |-> TRUE]
  /\ allFound = [w \in Workers |-> TRUE]
  /\ verified = [w \in Workers |-> FALSE]
  /\ hits = 0

\* Search() and the worker threads before any thread has run (lines
\* 2304-2305, 2318): params is zeroed, isRunning set before the launch.
SearchIdle ==
  /\ isRunning = [w \in Workers |-> TRUE]
  /\ hasStarted = [w \in Workers |-> FALSE]
  /\ wpc = [w \in Workers |-> "init"]
  /\ gpuOk = [w \in Workers |-> TRUE]
  /\ passes = [w \in Workers |-> 0]
  /\ spc = "wait"

startPubKeySpecified == ~isZero(startPubKey)

\* Values of the seed-derived startKey (all the residues modulo N), and
\* the values Rand(256) returns in the model.
KeySpace == 0 .. (N - 1)
RandKeys == {0, 7, 12, 27}

\* Offset public keys tried by the model: none, and the point 3*G.
StartPubKeys == {ZeroPt, ComputePublicKey(3)}

(***************************************************************************)
(* Addresses.  GetHash160 / GetAddress hash the serialised point: the      *)
(* compressed form keeps the parity of y and x, the uncompressed form x    *)
(* and y.  The hash and the Base58 coding are taken to be injective.       *)
(***************************************************************************)
GetHash160(compressed, p) ==
  IF compressed THEN <<2 + (p.y % 2), p.x>> ELSE <<4, p.x, p.y>>

GetAddress(compressed, p) == GetHash160(compressed, p)

(***************************************************************************)
(* checkPrivKey: the scalar rebuilt from (key, incr, endomorphism), its    *)
(* check against the address, and the second attempt with the opposite     *)
(* key.  Result: [ok, k].                                                  *)
(***************************************************************************)
NegY(p) == Pt(p.x, ModNeg(p.y))

\* A variant of checkPrivKey with no second attempt with the opposite key.
checkPrivKeyNoRetry(addr, bkey, incr, endomorphism, mode) ==
  LET k0 == IF incr < 0 THEN NegAddOrder(bkey + (-incr)) ELSE bkey + incr
      sp0 == IF incr < 0 /\ startPubKeySpecified THEN NegY(startPubKey) ELSE startPubKey
      k1 == IF endomorphism = 1 THEN ModMulK1order(k0, lambda)
            ELSE IF endomorphism = 2 THEN ModMulK1order(k0, lambda2)
            ELSE k0
      sp1 == IF ~startPubKeySpecified THEN sp0
             ELSE IF endomorphism = 1 THEN Pt(ModMulK1(sp0.x, beta), sp0.y)
             ELSE IF endomorphism = 2 THEN Pt(ModMulK1(sp0.x, beta2), sp0.y)
             ELSE sp0
      pa == ComputePublicKey(k1)
      p1 == IF startPubKeySpecified THEN AddDirect(pa, sp1) ELSE pa
  IN IF GetAddress(mode, p1) = addr THEN [ok |-> TRUE, k |-> k1]
     ELSE [ok |-> FALSE, k |-> k1]

checkPrivKey(addr, bkey, incr, endomorphism, mode) ==
  LET k0 == IF incr < 0 THEN NegAddOrder(bkey + (-incr)) ELSE bkey + incr
      sp0 == IF incr < 0 /\ startPubKeySpecified THEN NegY(startPubKey) ELSE startPubKey
      k1 == IF endomorphism = 1 THEN ModMulK1order(k0, lambda)
            ELSE IF endomorphism = 2 THEN ModMulK1order(k0, lambda2)
            ELSE k0
      sp1 == IF ~startPubKeySpecified THEN sp0
             ELSE IF endomorphism = 1 THEN Pt(ModMulK1(sp0.x, beta), sp0.y)
             ELSE IF endomorphism = 2 THEN Pt(ModMulK1(sp0.x, beta2), sp0.y)
             ELSE sp0
      pa == ComputePublicKey(k1)
      p1 == IF startPubKeySpecified THEN AddDirect(pa, sp1) ELSE pa
      k2 == NegAddOrder(k1)
      pb == ComputePublicKey(k2)
      p2 == IF startPubKeySpecified THEN AddDirect(pb, NegY(sp1)) ELSE pb
  IN IF GetAddress(mode, p1) = addr THEN [ok |-> TRUE, k |-> k1]
     ELSE IF GetAddress(mode, p2) = addr THEN [ok |-> TRUE, k |-> k2]
     ELSE [ok |-> FALSE, k |-> k2]

(***************************************************************************)
(* checkAddresses: the six candidates derived from one visited point, in   *)
(* the order the code tests them.                                          *)
(***************************************************************************)
Endo1(p) == Pt(ModMulK1(p.x, beta), p.y)
Endo2(p) == Pt(ModMulK1(p.x, beta2), p.y)

checkAddresses(i, p1) ==
  << [pt |-> p1, incr |-> i, endo |-> 0],
     [pt |-> Endo1(p1), incr |-> i, endo |-> 1],
     [pt |-> Endo2(p1), incr |-> i, endo |-> 2],
     [pt |-> NegY(p1), incr |-> -i, endo |-> 0],
     [pt |-> NegY(Endo1(p1)), incr |-> -i, endo |-> 1],
     [pt |-> NegY(Endo2(p1)), incr |-> -i, endo |-> 2] >>

(***************************************************************************)
(* IntGroup::ModInv on ints[0..m]: the prefix products, one inversion of   *)
(* the total product, the unwinding pass.                                  *)
(***************************************************************************)
RECURSIVE SubProd(_, _)
SubProd(ints, i) == IF i = 0 THEN ints[0] ELSE ModMulK1(SubProd(ints, i - 1), ints[i])

\* The running `inverse` when the unwinding loop reaches index i.
RECURSIVE InvAt(_, _, _, _)
InvAt(ints, m, i, z) ==
  IF i = m THEN ModInv(SubProd(ints, m), z)
  ELSE ModMulK1(InvAt(ints, m, i + 1, z), ints[i + 1])

GroupModInv(ints, m, z) ==
  [i \in 0 .. m |-> IF i = 0 THEN InvAt(ints, m, 0, z)
                    ELSE ModMulK1(SubProd(ints, i - 1), InvAt(ints, m, i, z))]

\* The values Int::ModInv may leave for this batch.
InvChoices(ints, m) == IF SubProd(ints, m) = 0 THEN Field ELSE {0}

(***************************************************************************)
(* FindKeyCPU: one group.                                                  *)
(***************************************************************************)
hLength == HalfGrp - 1

\* "Fill group": dx[i] = Gn[i].x - startP.x, dx[HalfGrp] = _2Gn.x - startP.x
FillDx(sP) ==
  [i \in 0 .. HalfGrp |-> IF i < HalfGrp THEN ModSub(Gn[i].x, sP.x)
                          ELSE ModSub(_2Gn.x, sP.x)]

\* P = startP + (i+1)*G with the inverse dxi of Gn[i].x - startP.x
PosPoint(sP, i, dxi) ==
  LET dy == ModSub(Gn[i].y, sP.y)
      s  == ModMulK1(dy, dxi)
      p2 == ModSquareK1(s)
      px == ModSub(ModAdd(ModNeg(sP.x), p2), Gn[i].x)
      py == ModSub(ModMulK1(ModSub(Gn[i].x, px), s), Gn[i].y)
  IN Pt(px, py)

\* P = startP - (i+1)*G
NegPoint(sP, i, dxi) ==
  LET dyn == ModSub(ModNeg(Gn[i].y), sP.y)
      s   == ModMulK1(dyn, dxi)
      p2  == ModSquareK1(s)
      px  == ModSub(ModAdd(ModNeg(sP.x), p2), Gn[i].x)
      py  == ModAdd(ModMulK1(ModSub(Gn[i].x, px), s), Gn[i].y)
  IN Pt(px, py)

\* Next start point: startP + CPU_GRP_SIZE*G with the inverse dxi
NextStart(sP, dxi) ==
  LET dy == ModSub(_2Gn.y, sP.y)
      s  == ModMulK1(dy, dxi)
      p2 == ModSquareK1(s)
      px == ModSub(ModAdd(ModNeg(sP.x), p2), _2Gn.x)
      py == ModSub(ModMulK1(ModSub(_2Gn.x, px), s), _2Gn.y)
  IN Pt(px, py)

\* The writes to pts[] the loop makes for i = from .. e-1, in order.
RECURSIVE LoopWrites(_, _, _, _)
LoopWrites(sP, inv, from, e) ==
  IF from >= e THEN << >>
  ELSE << [slot |-> HalfGrp + (from + 1), val |-> PosPoint(sP, from, inv[from])],
          [slot |-> HalfGrp - (from + 1), val |-> NegPoint(sP, from, inv[from])] >>
       \o LoopWrites(sP, inv, from + 1, e)

\* All writes to pts[] of one group; e is the value of i when the loop ends
\* (hLength unless endOfSearch ended it early).
GroupWrites(sP, inv, e) ==
  << [slot |-> HalfGrp, val |-> sP] >>
  \o LoopWrites(sP, inv, 0, e)
  \o << [slot |-> 0, val |-> NegPoint(sP, e, inv[e])] >>

WritesTo(ws, j) == {m \in 1 .. Len(ws) : ws[m].slot = j}

ApplyWrites(old, ws) ==
  [j \in 0 .. (CPU_GRP_SIZE - 1) |->
     IF WritesTo(ws, j) = {} THEN old[j]
     ELSE ws[CHOOSE m \in WritesTo(ws, j) : \A o \in WritesTo(ws, j) : o <= m].val]

CountWrites(ws) == [j \in 0 .. (CPU_GRP_SIZE - 1) |-> Cardinality(WritesTo(ws, j))]

(***************************************************************************)
(* getCPUStartingKey: the keys it may return for thread thId, and the      *)
(* start point that goes with a key.                                       *)
(***************************************************************************)
KeyShift == 32         \* off.ShiftL(64), scaled

\* A variant of StartingKeys that leaves the thread id out of the key.
StartingKeysNoOffset(thId) == IF rekey > 0 THEN RandKeys ELSE {startKey}

StartingKeys(thId) == IF rekey > 0 THEN RandKeys ELSE {startKey + thId * KeyShift}

StartingPoint(k) ==
  LET km == ComputePublicKey(k + CPU_GRP_SIZE \div 2)
  IN IF startPubKeySpecified THEN AddDirect(km, startPubKey) ELSE km

(***************************************************************************)
(* checkAddr in wildcard mode with one pattern that every address          *)
(* matches ("1*"), applied to the six candidates of checkAddresses from    *)
(* the n-th on: checkPrivKey, then nbFoundKey++, patternFound[0] = true    *)
(* and updateFound(), or the warning.                                      *)
(***************************************************************************)
RECURSIVE checkAddr(_, _, _, _, _)
checkAddr(cands, n, bkey, mode, acc) ==
  IF n > Len(cands) THEN acc
  ELSE LET c == cands[n]
           addr == GetAddress(mode, c.pt)
           r == checkPrivKey(addr, bkey, c.incr, c.endo, mode)
           hit == [nb |-> acc.nb + 1, pf |-> TRUE,
                   eos |-> IF stopWhenFound THEN TRUE ELSE acc.eos,
                   warn |-> acc.warn,
                   sink |-> Append(acc.sink, [addr |-> addr, k |-> r.k, reeval |-> TRUE])]
           miss == [acc EXCEPT !.warn = @ + 1]
       IN checkAddr(cands, n + 1, bkey, mode, IF r.ok THEN hit ELSE miss)

(***************************************************************************)
(* Actions of the CPU worker (FindKeyCPU, thread 0).                       *)
(***************************************************************************)
\* Lines 1613-1636: the first starting key.
CPUStart ==
  /\ cpc = "init"
  /\ \E k \in StartingKeys(0) :
       /\ key' = k
       /\ startP' = StartingPoint(k)
  /\ rekeyRequest' = FALSE
  /\ counter' = 0
  /\ cpc' = "loop"
  /\ UNCHANGED <<startPubKey, rekey, startKey, searchMode, stopWhenFound, endOfSearch,
                 pts, wr, ci, nPass, patternFound, nbFoundKey, nbWarn, sink>>
  /\ UNCHANGED <<foundVars, searchVars, extraVars>>

\* Lines 1638-1737: loop test, rekey on request, fill group, grouped
\* inversion, the group's points and the next start point.  e is the value
\* of i at the end of the point loop.
ComputeGroup(k, sP, e) ==
  \E z \in InvChoices(FillDx(sP), HalfGrp) :
    LET inv == GroupModInv(FillDx(sP), HalfGrp, z)
        ws == GroupWrites(sP, inv, e)
    IN /\ key' = k
       /\ pts' = ApplyWrites(pts, ws)
       /\ wr' = CountWrites(ws)
       /\ startP' = NextStart(sP, inv[e + 1])

CPUPassBody(e) ==
  /\ cpc = "loop"
  /\ ~endOfSearch
  /\ nPass < MaxPass
  /\ IF rekeyRequest
     THEN \E k \in StartingKeys(0) : ComputeGroup(k, StartingPoint(k), e)
     ELSE ComputeGroup(key, startP, e)
  /\ rekeyRequest' = FALSE
  /\ nPass' = nPass + 1
  /\ ci' = 0
  /\ cpc' = "check"

CPUPass ==
  /\ CPUPassBody(hLength)
  /\ UNCHANGED <<startPubKey, rekey, startKey, searchMode, stopWhenFound, endOfSearch,
                 counter, patternFound, nbFoundKey, nbWarn, sink>>
  /\ UNCHANGED <<foundVars, searchVars, extraVars>>

\* The same, with endOfSearch raised by another thread while the point loop
\* runs: the loop ends at i = e < hLength.
CPUPassInterrupted ==
  /\ stopWhenFound
  /\ \E e \in 0 .. (hLength - 1) : CPUPassBody(e)
  /\ endOfSearch' = TRUE
  /\ UNCHANGED <<startPubKey, rekey, startKey, searchMode, stopWhenFound,
                 counter, patternFound, nbFoundKey, nbWarn, sink>>
  /\ UNCHANGED <<foundVars, searchVars, extraVars>>

\* Lines 1780-1798: one iteration of the check loop (checkAddresses).
CPUCheck ==
  /\ cpc = "check"
  /\ ci < CPU_GRP_SIZE
  /\ ~endOfSearch
  /\ LET acc == checkAddr(checkAddresses(ci, pts[ci]), 1, key, searchMode = "compressed",
                          [nb |-> nbFoundKey, pf |-> patternFound, eos |-> endOfSearch,
                           warn |-> nbWarn, sink |-> sink])
     IN /\ nbFoundKey' = acc.nb
        /\ patternFound' = acc.pf
        /\ endOfSearch' = acc.eos
        /\ nbWarn' = acc.warn
        /\ sink' = acc.sink
  /\ ci' = ci + 1
  /\ UNCHANGED <<startPubKey, rekey, startKey, searchMode, stopWhenFound, key, startP,
                 pts, wr, cpc, nPass, rekeyRequest, counter>>
  /\ UNCHANGED <<foundVars, searchVars, extraVars>>

\* Lines 1802-1803: end of the check loop, key and counter advance.
CPUAdvance ==
  /\ cpc = "check"
  /\ ci >= CPU_GRP_SIZE \/ endOfSearch
  /\ key' = key + CPU_GRP_SIZE
  /\ counter' = counter + 6 * CPU_GRP_SIZE
  /\ cpc' = "loop"
  /\ UNCHANGED <<startPubKey, rekey, startKey, searchMode, stopWhenFound, endOfSearch,
                 startP, pts, wr, ci, nPass, rekeyRequest, patternFound, nbFoundKey,
                 nbWarn, sink>>
  /\ UNCHANGED <<foundVars, searchVars, extraVars>>

\* Lines 1638, 1807: the loop ends, isRunning = false.
CPUExit ==
  /\ cpc = "loop"
  /\ endOfSearch
  /\ cpc' = "done"
  /\ UNCHANGED <<startPubKey, rekey, startKey, searchMode, stopWhenFound, endOfSearch,
                 key, startP, pts, wr, ci, nPass, rekeyRequest, counter, patternFound,
                 nbFoundKey, nbWarn, sink>>
  /\ UNCHANGED <<foundVars, searchVars, extraVars>>

\* Search(), lines 2409-2415 with rekeyRequest(), lines 2254-2261.
RekeyRequest ==
  /\ rekey > 0
  /\ cpc \in {"loop", "check"}
  /\ ~rekeyRequest
  /\ rekeyRequest' = TRUE
  /\ UNCHANGED <<startPubKey, rekey, startKey, searchMode, stopWhenFound, endOfSearch,
                 key, startP, pts, wr, cpc, ci, nPass, counter, patternFound,
                 nbFoundKey, nbWarn, sink>>
  /\ UNCHANGED <<foundVars, searchVars, extraVars>>

\* Another worker's updateFound() ends the search (stopWhenFound only).
OtherWorkerStops ==
  /\ stopWhenFound
  /\ cpc \in {"loop", "check"}
  /\ ~endOfSearch
  /\ endOfSearch' = TRUE
  /\ UNCHANGED <<startPubKey, rekey, startKey, searchMode, stopWhenFound,
                 key, startP, pts, wr, cpc, ci, nPass, rekeyRequest, counter,
                 patternFound, nbFoundKey, nbWarn, sink>>
  /\ UNCHANGED <<foundVars, searchVars, extraVars>>

InitCPU ==
  /\ startPubKey \in StartPubKeys
  /\ rekey \in {0, 1}
  /\ startKey \in (IF rekey > 0 THEN {0} ELSE KeySpace)
  /\ searchMode \in {"compressed", "uncompressed"}
  /\ stopWhenFound \in BOOLEAN
  /\ endOfSearch = FALSE
  /\ key = 0
  /\ startP = ZeroPt
  /\ pts = [j \in 0 .. (CPU_GRP_SIZE - 1) |-> ZeroPt]
  /\ wr = [j \in 0 .. (CPU_GRP_SIZE - 1) |-> 0]
  /\ cpc = "init"
  /\ ci = 0
  /\ nPass = 0
  /\ rekeyRequest = FALSE
  /\ counter = 0
  /\ patternFound = FALSE
  /\ nbFoundKey = 0
  /\ nbWarn = 0
  /\ sink = << >>
  /\ FoundIdle
  /\ SearchIdle
  /\ ExtraIdle

NextCPU ==
  \/ CPUStart
  \/ CPUPass
  \/ CPUPassInterrupted
  \/ CPUCheck
  \/ CPUAdvance
  \/ CPUExit
  \/ RekeyRequest
  \/ OtherWorkerStops

vars == <<cpuVars, foundVars, searchVars, extraVars>>

SpecCPU == InitCPU /\ [][NextCPU]_vars

(***************************************************************************)
(* Claims on the CPU batch engine.                                         *)
(***************************************************************************)
\* The point the engine is meant to hold for scalar k.
ExpectedPoint(k) ==
  IF startPubKeySpecified THEN AddDirect(ComputePublicKey(k), startPubKey)
  ELSE ComputePublicKey(k)

\* Some delta-x of the group centred on sP is zero.
HasZeroDx(sP) == \E i \in 0 .. HalfGrp : FillDx(sP)[i] = 0

\* C1: an uninterrupted pass writes every slot of pts exactly once and
\* leaves pts[j] = (key + j)*G (plus startPubKey in offset mode).
C1_PassVisitsEachPointOnce ==
  [][CPUPass => \A j \in 0 .. (CPU_GRP_SIZE - 1) :
                  /\ wr'[j] = 1
                  /\ pts'[j] = ExpectedPoint(key' + j)]_vars

\* C3: at the start of every pass startP = (key + CPU_GRP_SIZE/2)*G (plus
\* startPubKey in offset mode), after any sequence of passes and rekeys.
C3_StartPointTracksKey ==
  (cpc = "loop" /\ ~endOfSearch) => startP = ExpectedPoint(key + CPU_GRP_SIZE \div 2)

\* C8: a pass one of whose delta-x is zero is discarded (none of its
\* candidates is checked) and the worker takes a fresh key before the next
\* pass.
C8_ZeroDxPassDiscarded ==
  [][/\ CPUCheck => ~HasZeroDx(pts[HalfGrp])
     /\ ((CPUPass \/ CPUPassInterrupted) /\ nPass > 0 /\ HasZeroDx(pts[HalfGrp]))
           => rekeyRequest]_vars

(***************************************************************************)
(* SpecRecon: checkAddresses and checkPrivKey on exact inputs.  The worker *)
(* is at the head of its check loop with pts[j] = (key + j)*G (plus        *)
(* startPubKey) for every base key, offset key and search mode; the steps  *)
(* are the check loop's.                                                   *)
(***************************************************************************)
InitRecon ==
  /\ startPubKey \in StartPubKeys
  /\ rekey = 0
  /\ startKey \in KeySpace
  /\ searchMode \in {"compressed", "uncompressed"}
  /\ stopWhenFound \in BOOLEAN
  /\ endOfSearch = FALSE
  /\ key = startKey
  /\ startP = ExpectedPoint(key + CPU_GRP_SIZE + CPU_GRP_SIZE \div 2)
  /\ pts = [j \in 0 .. (CPU_GRP_SIZE - 1) |-> ExpectedPoint(key + j)]
  /\ wr = [j \in 0 .. (CPU_GRP_SIZE - 1) |-> 1]
  /\ cpc = "check"
  /\ ci = 0
  /\ nPass = 1
  /\ rekeyRequest = FALSE
  /\ counter = 0
  /\ patternFound = FALSE
  /\ nbFoundKey = 0
  /\ nbWarn = 0
  /\ sink = << >>
  /\ FoundIdle
  /\ SearchIdle
  /\ ExtraIdle

NextRecon ==
  \/ CPUCheck
  \/ CPUAdvance

SpecRecon == InitRecon /\ [][NextRecon]_vars

\* startPubKey as it enters the n-th candidate of checkAddresses: x times
\* beta^endo, y negated for the three y-negated candidates.
CandidateOffset(n) ==
  LET c == checkAddresses(0, ZeroPt)[n]
      s == IF n > 3 THEN NegY(startPubKey) ELSE startPubKey
  IN IF c.endo = 1 THEN Endo1(s) ELSE IF c.endo = 2 THEN Endo2(s) ELSE s

\* C2: for every base key, index, endomorphism and sign, the scalar k that
\* checkPrivKey writes for a candidate of checkAddresses satisfies
\* k*G (+ transformed startPubKey) = the candidate point, and no candidate
\* is rejected; also for i = 0 with negated y.  (A candidate is an affine
\* point: the zero point, which stands for infinity, has no address.)
C2_ReconstructedKeyIsCandidate ==
  [][(CPUCheck /\ ~isZero(pts[ci])) =>
       LET cands == checkAddresses(ci, pts[ci])
       IN /\ nbWarn' = nbWarn
          /\ Len(sink') = Len(sink) + 6
          /\ \A n \in 1 .. 6 :
               LET r == sink'[Len(sink) + n]
               IN /\ r.addr = GetAddress(searchMode = "compressed", cands[n].pt)
                  /\ AddDirect(ComputePublicKey(r.k), CandidateOffset(n)) = cands[n].pt]_vars

\* C2 witness: index 0 was checked, and the y-negated candidate of a
\* non-zero point was written with the opposite key N - key (second attempt).
C2_Witness ==
  /\ cpc = "check" /\ ci = 1 /\ nbWarn = 0 /\ Len(sink) = 6
  /\ ~isZero(pts[0])
  /\ startPubKeySpecified
  /\ sink[1].k = key
  /\ sink[4].k = NegAddOrder(key)

(***************************************************************************)
(* SpecFound: the workers' reports.  A candidate of a worker matches a     *)
(* target (checkAddr, checkStegoMask, or the GPU mask/sig/taproot          *)
(* handler of FindKeyGPU); the key is re-evaluated, written by output()    *)
(* under the mutex, counted, and updateFound() decides endOfSearch.  Every *)
(* read and write of a shared variable is a step of its own.               *)
(***************************************************************************)
engineVars == <<startPubKey, rekey, startKey, searchMode, key, startP, pts, wr, cpc,
                ci, nPass, rekeyRequest, counter, patternFound, searchVars, extraVars>>
configVars == <<fmode, hasOutFile, usedPrefix, items, stopWhenFound>>

\* Lines 1063-1068, 2187: a candidate of worker w carries the hash160 of
\* target t and checkAddr reaches that item.
CheckAddrEnter(w, t) ==
  /\ fmode = "prefix"
  /\ fpc[w] = "idle"
  /\ hits < MaxHits
  /\ (Kind(w) = "gpu") => ~endOfSearch
  /\ fpc' = [fpc EXCEPT ![w] = "ca_test"]
  /\ cur' = [cur EXCEPT ![w] = t]
  /\ hits' = hits + 1
  /\ verified' = [verified EXCEPT ![w] = FALSE]
  /\ UNCHANGED <<engineVars, configVars, endOfSearch, nbFoundKey, nbWarn, sink, itemFound,
                 prefFound, mutex, needToClose, tmpNb, ui, uj, iFound, allFound>>

\* Line 1070: if (stopWhenFound && *found) continue;
CheckAddrTest(w) ==
  /\ fpc[w] = "ca_test"
  /\ IF stopWhenFound /\ itemFound[cur[w]]
     THEN /\ fpc' = [fpc EXCEPT ![w] = "idle"]
          /\ cur' = [cur EXCEPT ![w] = 0]
     ELSE /\ fpc' = [fpc EXCEPT ![w] = "ca_set"]
          /\ UNCHANGED cur
  /\ UNCHANGED <<engineVars, configVars, endOfSearch, nbFoundKey, nbWarn, sink, itemFound,
                 prefFound, mutex, needToClose, tmpNb, ui, uj, iFound, allFound,
                 verified, hits>>

\* Line 1076: *found = true
CheckAddrSet(w) ==
  /\ fpc[w] = "ca_set"
  /\ itemFound' = [itemFound EXCEPT ![cur[w]] = TRUE]
  /\ fpc' = [fpc EXCEPT ![w] = "verify"]
  /\ UNCHANGED <<engineVars, configVars, endOfSearch, nbFoundKey, nbWarn, sink,
                 prefFound, mutex, cur, needToClose, tmpNb, ui, uj, iFound, allFound,
                 verified, hits>>

\* Lines 1145-1172: a candidate of CPU worker w matches the mask.
StegoMaskHit(w) ==
  /\ fmode = "mask"
  /\ Kind(w) = "cpu"
  /\ fpc[w] = "idle"
  /\ hits < MaxHits
  /\ ~endOfSearch
  /\ fpc' = [fpc EXCEPT ![w] = "verify"]
  /\ cur' = [cur EXCEPT ![w] = 0]
  /\ hits' = hits + 1
  /\ verified' = [verified EXCEPT ![w] = FALSE]
  /\ UNCHANGED <<engineVars, configVars, endOfSearch, nbFoundKey, nbWarn, sink, itemFound,
                 prefFound, mutex, needToClose, tmpNb, ui, uj, iFound, allFound>>

\* checkPrivKey (lines 917-967) and checkStegoMask (lines 1174-1253): the
\* key is rebuilt and the predicate re-evaluated; on failure the warning is
\* printed and nothing is written.
Reevaluate(w) ==
  /\ fpc[w] = "verify"
  /\ \E ok \in BOOLEAN :
       /\ verified' = [verified EXCEPT ![w] = ok]
       /\ nbWarn' = IF ok THEN nbWarn ELSE nbWarn + 1
       /\ fpc' = [fpc EXCEPT ![w] = IF ok THEN "out_lock" ELSE "idle"]
       /\ cur' = [cur EXCEPT ![w] = IF ok THEN @ ELSE 0]
  /\ UNCHANGED <<engineVars, configVars, endOfSearch, nbFoundKey, sink, itemFound,
                 prefFound, mutex, needToClose, tmpNb, ui, uj, iFound, allFound,
                 hits>>

\* Lines 1980-2178: an item of the GPU mask / signature / taproot kernel:
\* the key is rebuilt and handed to output().
GpuStegoItem(w) ==
  /\ fmode = "mask"
  /\ Kind(w) = "gpu"
  /\ fpc[w] = "idle"
  /\ hits < MaxHits
  /\ ~endOfSearch
  /\ fpc' = [fpc EXCEPT ![w] = "out_lock"]
  /\ cur' = [cur EXCEPT ![w] = 0]
  /\ hits' = hits + 1
  /\ verified' = [verified EXCEPT ![w] = FALSE]
  /\ UNCHANGED <<engineVars, configVars, endOfSearch, nbFoundKey, nbWarn, sink, itemFound,
                 prefFound, mutex, needToClose, tmpNb, ui, uj, iFound, allFound>>

\* output(), line 817: pthread_mutex_lock
OutputLock(w) ==
  /\ fpc[w] = "out_lock"
  /\ mutex = 0
  /\ mutex' = w
  /\ fpc' = [fpc EXCEPT ![w] = "out_open"]
  /\ UNCHANGED <<engineVars, configVars, endOfSearch, nbFoundKey, nbWarn, sink, itemFound,
                 prefFound, cur, needToClose, tmpNb, ui, uj, iFound, allFound, verified,
                 hits>>

\* output(), lines 820-831: fopen, which may fail
OutputOpen(w) ==
  /\ fpc[w] = "out_open"
  /\ \E opened \in (IF hasOutFile THEN BOOLEAN ELSE {FALSE}) :
       needToClose' = [needToClose EXCEPT ![w] = opened]
  /\ fpc' = [fpc EXCEPT ![w] = "out_write"]
  /\ UNCHANGED <<engineVars, configVars, endOfSearch, nbFoundKey, nbWarn, sink, itemFound,
                 prefFound, mutex, cur, tmpNb, ui, uj, iFound, allFound, verified, hits>>

\* output(), lines 833-860: the record is written, the file closed
OutputWrite(w) ==
  /\ fpc[w] = "out_write"
  /\ sink' = Append(sink, [by |-> w, target |-> cur[w], reeval |-> verified[w],
                            toFile |-> needToClose[w]])
  /\ fpc' = [fpc EXCEPT ![w] = "out_unlock"]
  /\ UNCHANGED <<engineVars, configVars, endOfSearch, nbFoundKey, nbWarn, itemFound,
                 prefFound, mutex, cur, needToClose, tmpNb, ui, uj, iFound, allFound,
                 verified, hits>>

\* A variant of OutputUnlock that returns early, the mutex still held, when
\* the output file could not be opened.
OutputUnlockLeak(w) ==
  /\ fpc[w] = "out_unlock"
  /\ mutex' = IF hasOutFile /\ ~needToClose[w] THEN mutex ELSE 0
  /\ needToClose' = [needToClose EXCEPT ![w] = FALSE]
  /\ fpc' = [fpc EXCEPT ![w] = "inc_read"]
  /\ UNCHANGED <<engineVars, configVars, endOfSearch, nbFoundKey, nbWarn, sink, itemFound,
                 prefFound, cur, tmpNb, ui, uj, iFound, allFound, verified,
                 hits>>

\* output(), line 867: pthread_mutex_unlock, and the return
OutputUnlock(w) ==
  /\ fpc[w] = "out_unlock"
  /\ mutex' = 0
  /\ needToClose' = [needToClose EXCEPT ![w] = FALSE]
  /\ fpc' = [fpc EXCEPT ![w] = "inc_read"]
  /\ UNCHANGED <<engineVars, configVars, endOfSearch, nbFoundKey, nbWarn, sink, itemFound,
                 prefFound, cur, tmpNb, ui, uj, iFound, allFound, verified,
                 hits>>

\* nbFoundKey++ (lines 1079, 1261, 2180): the read
IncRead(w) ==
  /\ fpc[w] = "inc_read"
  /\ tmpNb' = [tmpNb EXCEPT ![w] = nbFoundKey]
  /\ fpc' = [fpc EXCEPT ![w] = "inc_write"]
  /\ UNCHANGED <<engineVars, configVars, endOfSearch, nbFoundKey, nbWarn, sink, itemFound,
                 prefFound, mutex, cur, needToClose, ui, uj, iFound, allFound, verified,
                 hits>>

\* nbFoundKey++: the write
IncWrite(w) ==
  /\ fpc[w] = "inc_write"
  /\ nbFoundKey' = tmpNb[w] + 1
  /\ tmpNb' = [tmpNb EXCEPT ![w] = 0]
  /\ verified' = [verified EXCEPT ![w] = FALSE]
  /\ cur' = [cur EXCEPT ![w] = 0]
  /\ fpc' = [fpc EXCEPT ![w] = IF fmode = "prefix" THEN "uf_start" ELSE "sm_stop"]
  /\ UNCHANGED <<engineVars, configVars, endOfSearch, nbWarn, sink, itemFound,
                 prefFound, mutex, needToClose, ui, uj, iFound, allFound, hits>>

\* Lines 1263-1265, 2181-2183: if (stopWhenFound) endOfSearch = true
StegoStop(w) ==
  /\ fpc[w] = "sm_stop"
  /\ endOfSearch' = IF stopWhenFound THEN TRUE ELSE endOfSearch
  /\ fpc' = [fpc EXCEPT ![w] = "idle"]
  /\ UNCHANGED <<engineVars, configVars, nbFoundKey, nbWarn, sink, itemFound,
                 prefFound, mutex, cur, needToClose, tmpNb, ui, uj, iFound, allFound,
                 verified, hits>>

\* updateFound(), lines 878, 890: entry
UpdStart(w) ==
  /\ fpc[w] = "uf_start"
  /\ IF stopWhenFound
     THEN /\ allFound' = [allFound EXCEPT ![w] = TRUE]
          /\ ui' = [ui EXCEPT ![w] = 1]
          /\ fpc' = [fpc EXCEPT ![w] = "uf_pref"]
     ELSE /\ fpc' = [fpc EXCEPT ![w] = "idle"]
          /\ UNCHANGED <<allFound, ui>>
  /\ UNCHANGED <<engineVars, configVars, endOfSearch, nbFoundKey, nbWarn, sink, itemFound,
                 prefFound, mutex, cur, needToClose, tmpNb, uj, iFound, verified, hits>>

\* updateFound(), lines 891-894: loop test and the read of prefixes[p].found
UpdPrefix(w) ==
  /\ fpc[w] = "uf_pref"
  /\ IF ui[w] > Len(usedPrefix)
     THEN /\ fpc' = [fpc EXCEPT ![w] = "uf_end"]
          /\ UNCHANGED <<ui, uj, iFound>>
     ELSE IF prefFound[usedPrefix[ui[w]]]
     THEN /\ iFound' = [iFound EXCEPT ![w] = TRUE]
          /\ ui' = [ui EXCEPT ![w] = @ + 1]
          /\ UNCHANGED <<fpc, uj>>
     ELSE /\ iFound' = [iFound EXCEPT ![w] = TRUE]
          /\ uj' = [uj EXCEPT ![w] = 1]
          /\ fpc' = [fpc EXCEPT ![w] = "uf_item"]
          /\ UNCHANGED ui
  /\ UNCHANGED <<engineVars, configVars, endOfSearch, nbFoundKey, nbWarn, sink, itemFound,
                 prefFound, mutex, cur, needToClose, tmpNb, allFound, verified, hits>>

\* updateFound(), lines 895-899: iFound &= *(item.found)
UpdItem(w) ==
  /\ fpc[w] = "uf_item"
  /\ LET its == items[usedPrefix[ui[w]]]
     IN IF uj[w] > Len(its)
        THEN /\ fpc' = [fpc EXCEPT ![w] = "uf_wpref"]
             /\ UNCHANGED <<uj, iFound>>
        ELSE /\ iFound' = [iFound EXCEPT ![w] = @ /\ itemFound[its[uj[w]]]]
             /\ uj' = [uj EXCEPT ![w] = @ + 1]
             /\ UNCHANGED fpc
  /\ UNCHANGED <<engineVars, configVars, endOfSearch, nbFoundKey, nbWarn, sink, itemFound,
                 prefFound, mutex, cur, needToClose, tmpNb, ui, allFound, verified, hits>>

\* updateFound(), lines 900-902: prefixes[p].found = iFound; allFound &= iFound
UpdWritePrefix(w) ==
  /\ fpc[w] = "uf_wpref"
  /\ prefFound' = [prefFound EXCEPT ![usedPrefix[ui[w]]] = iFound[w]]
  /\ allFound' = [allFound EXCEPT ![w] = @ /\ iFound[w]]
  /\ ui' = [ui EXCEPT ![w] = @ + 1]
  /\ uj' = [uj EXCEPT ![w] = 0]
  /\ iFound' = [iFound EXCEPT ![w] = TRUE]
  /\ fpc' = [fpc EXCEPT ![w] = "uf_pref"]
  /\ UNCHANGED <<engineVars, configVars, endOfSearch, nbFoundKey, nbWarn, sink, itemFound,
                 mutex, cur, needToClose, tmpNb, verified, hits>>

\* updateFound(), line 904: endOfSearch = allFound
UpdEnd(w) ==
  /\ fpc[w] = "uf_end"
  /\ endOfSearch' = allFound[w]
  /\ allFound' = [allFound EXCEPT ![w] = TRUE]
  /\ ui' = [ui EXCEPT ![w] = 0]
  /\ fpc' = [fpc EXCEPT ![w] = "idle"]
  /\ UNCHANGED <<engineVars, configVars, nbFoundKey, nbWarn, sink, itemFound,
                 prefFound, mutex, cur, needToClose, tmpNb, uj, iFound, verified, hits>>

\* Lines 1638 / 1904: the worker sees endOfSearch and leaves its loop.
WorkerExit(w) ==
  /\ fpc[w] = "idle"
  /\ endOfSearch
  /\ fpc' = [fpc EXCEPT ![w] = "done"]
  /\ UNCHANGED <<engineVars, configVars, endOfSearch, nbFoundKey, nbWarn, sink, itemFound,
                 prefFound, mutex, cur, needToClose, tmpNb, ui, uj, iFound, allFound,
                 verified, hits>>

(***************************************************************************)
(* The lookup table the constructor builds (lines 180-185, 289-308) for an *)
(* assignment asg of the targets to 16-bit prefixes.                       *)
(***************************************************************************)
ItemSeq == [i \in Items |-> i]
FirstOfPrefix(asg, i) == \A j \in Items : j < i => asg[j] # asg[i]
FirstItems(asg) == SelectSeq(ItemSeq, LAMBDA i : FirstOfPrefix(asg, i))
UsedPrefixOf(asg) == [n \in 1 .. Len(FirstItems(asg)) |-> asg[FirstItems(asg)[n]]]
ItemsOf(asg) == [q \in Buckets |-> SelectSeq(ItemSeq, LAMBDA i : asg[i] = q)]

EngineIdle ==
  /\ startPubKey = ZeroPt
  /\ rekey = 0
  /\ startKey = 0
  /\ searchMode = "compressed"
  /\ key = 0
  /\ startP = ZeroPt
  /\ pts = [j \in 0 .. (CPU_GRP_SIZE - 1) |-> ZeroPt]
  /\ wr = [j \in 0 .. (CPU_GRP_SIZE - 1) |-> 0]
  /\ cpc = "done"
  /\ ci = 0
  /\ nPass = 0
  /\ rekeyRequest = FALSE
  /\ counter = 0
  /\ patternFound = FALSE

InitFound ==
  /\ EngineIdle
  /\ SearchIdle
  /\ ExtraIdle
  /\ stopWhenFound \in BOOLEAN
  /\ hasOutFile \in BOOLEAN
  /\ endOfSearch = FALSE
  /\ nbFoundKey = 0
  /\ nbWarn = 0
  /\ sink = << >>
  /\ fmode \in {"prefix", "mask"}
  /\ \E asg \in [Items -> Buckets] :
       /\ usedPrefix = (IF fmode = "prefix" THEN UsedPrefixOf(asg) ELSE << >>)
       /\ items = (IF fmode = "prefix" THEN ItemsOf(asg) ELSE [q \in Buckets |-> << >>])
  /\ itemFound = [t \in Items |-> FALSE]
  /\ prefFound = [q \in Buckets |-> items[q] = << >>]
  /\ mutex = 0
  /\ fpc = [w \in Workers |-> "idle"]
  /\ cur = [w \in Workers |-> 0]
  /\ needToClose = [w \in Workers |-> FALSE]
  /\ tmpNb = [w \in Workers |-> 0]
  /\ ui = [w \in Workers |-> 0]
  /\ uj = [w \in Workers |-> 0]
  /\ iFound = [w \in Workers |-> TRUE]
  /\ allFound = [w \in Workers |-> TRUE]
  /\ verified = [w \in Workers |-> FALSE]
  /\ hits = 0

NextFound ==
  \E w \in Workers :
    \/ \E t \in Items : CheckAddrEnter(w, t)
    \/ CheckAddrTest(w)
    \/ CheckAddrSet(w)
    \/ StegoMaskHit(w)
    \/ Reevaluate(w)
    \/ GpuStegoItem(w)
    \/ OutputLock(w)
    \/ OutputOpen(w)
    \/ OutputWrite(w)
    \/ OutputUnlock(w)
    \/ IncRead(w)
    \/ IncWrite(w)
    \/ StegoStop(w)
    \/ UpdStart(w)
    \/ UpdPrefix(w)
    \/ UpdItem(w)
    \/ UpdWritePrefix(w)
    \/ UpdEnd(w)
    \/ WorkerExit(w)

SpecFound == InitFound /\ [][NextFound]_vars

(***************************************************************************)
(* Claims on the found flags, the written records and the output mutex.    *)
(***************************************************************************)
\* No worker is between setting a found flag and returning from updateFound.
Quiescent == \A w \in Workers : fpc[w] \in {"idle", "done"}
AllTargetsFound == \A t \in Items : itemFound[t]

\* C4: with stopWhenFound in prefix mode, in every quiescent state in which
\* no report failed its re-evaluation, endOfSearch is true exactly when every
\* registered target's found flag is true.
C4_EndOfSearchIffAllFound ==
  (fmode = "prefix" /\ stopWhenFound /\ Quiescent /\ nbWarn = 0)
     => (endOfSearch <=> AllTargetsFound)

\* C5: every record written to the sink, by any path, had its reconstructed
\* key re-evaluated against the predicate first.
C5_WrittenRecordsReevaluated ==
  \A n \in 1 .. Len(sink) : sink[n].reeval

\* C9: a prefixes[q].found that is true is never written back to false.
C9_PrefixFoundMonotonic ==
  [][\A q \in Buckets : prefFound[q] => prefFound'[q]]_vars

InOutputSection(w) == fpc[w] \in {"out_open", "out_write", "out_unlock"}

\* C10: at most one worker is between lock and unlock of output(), the mutex
\* is held by exactly the worker inside the section, and a worker that has
\* returned from output() no longer holds it, whether or not the file opened.
C10_OutputSectionExclusive ==
  /\ \A w, v \in Workers : (InOutputSection(w) /\ InOutputSection(v)) => w = v
  /\ \A w \in Workers : InOutputSection(w) <=> mutex = w

\* A worker found the output file unopenable, wrote to stdout and returned;
\* another worker waited for the mutex and is inside the section now.
C10_Witness ==
  /\ hasOutFile
  /\ Len(sink) = 1
  /\ ~sink[1].toFile
  /\ mutex # 0
  /\ mutex # sink[1].by
  /\ fpc[mutex] = "out_write"
  /\ fpc[sink[1].by] = "inc_read"

(***************************************************************************)
(* SpecSearch: Search() and the life cycle of the worker threads.  Search  *)
(* waits for hasStarted, polls isAlive, and frees params on return; each   *)
(* worker runs passes until its loop test fails and clears isRunning.      *)
(***************************************************************************)
otherVars == <<startPubKey, rekey, startKey, searchMode, key, startP, pts, wr, cpc, ci,
               nPass, rekeyRequest, counter, patternFound, nbFoundKey, nbWarn, sink,
               foundVars, extraVars>>

\* Lines 2228-2237
isAlive == \A w \in Workers : isRunning[w]

\* Lines 2241-2250
hasStartedAll == \A w \in Workers : hasStarted[w]

\* Lines 1612-1636 (CPU) and 1842-1901 (GPU): the thread's set-up; SetKeys
\* of the GPU engine may fail.
WorkerInit(w) ==
  /\ wpc[w] = "init"
  /\ \E ok \in (IF Kind(w) = "gpu" THEN BOOLEAN ELSE {TRUE}) :
       gpuOk' = [gpuOk EXCEPT ![w] = ok]
  /\ hasStarted' = [hasStarted EXCEPT ![w] = TRUE]
  /\ wpc' = [wpc EXCEPT ![w] = "top"]
  /\ UNCHANGED <<otherVars, stopWhenFound, endOfSearch, isRunning, passes, spc>>

\* A variant of LoopTest whose GPU loop is while (ok), without the test of
\* endOfSearch.
LoopTestGpuIgnoresCancel(w) ==
  /\ wpc[w] = "top"
  /\ IF gpuOk[w] /\ (Kind(w) = "gpu" \/ ~endOfSearch)
     THEN /\ passes[w] < MaxPass
          /\ passes' = [passes EXCEPT ![w] = @ + 1]
          /\ wpc' = [wpc EXCEPT ![w] = "pass"]
     ELSE /\ wpc' = [wpc EXCEPT ![w] = "exit"]
          /\ UNCHANGED passes
  /\ UNCHANGED <<otherVars, stopWhenFound, endOfSearch, isRunning, hasStarted, gpuOk, spc>>

\* Line 1638: while (!endOfSearch); line 1904: while (ok && !endOfSearch)
LoopTest(w) ==
  /\ wpc[w] = "top"
  /\ IF gpuOk[w] /\ ~endOfSearch
     THEN /\ passes[w] < MaxPass
          /\ passes' = [passes EXCEPT ![w] = @ + 1]
          /\ wpc' = [wpc EXCEPT ![w] = "pass"]
     ELSE /\ wpc' = [wpc EXCEPT ![w] = "exit"]
          /\ UNCHANGED passes
  /\ UNCHANGED <<otherVars, stopWhenFound, endOfSearch, isRunning, hasStarted, gpuOk, spc>>

\* Lines 1640-1737 (the group of a CPU pass) and 1906-1921 (the kernel
\* launch of a GPU pass, which may fail).
PassCompute(w) ==
  /\ wpc[w] = "pass"
  /\ \E ok \in (IF Kind(w) = "gpu" THEN BOOLEAN ELSE {TRUE}) :
       gpuOk' = [gpuOk EXCEPT ![w] = ok]
  /\ wpc' = [wpc EXCEPT ![w] = "items"]
  /\ UNCHANGED <<otherVars, stopWhenFound, endOfSearch, isRunning, hasStarted, passes, spc>>

\* Lines 1780-1798 and 1923-2190: the candidates of the pass are checked; a
\* report with stopWhenFound writes endOfSearch (updateFound line 904 writes
\* allFound, the mask handlers write true).
PassCheck(w) ==
  /\ wpc[w] = "items"
  /\ \/ UNCHANGED endOfSearch
     \/ /\ stopWhenFound
        /\ \E all \in BOOLEAN : endOfSearch' = all
  /\ wpc' = [wpc EXCEPT ![w] = "adv"]
  /\ UNCHANGED <<otherVars, stopWhenFound, isRunning, hasStarted, gpuOk, passes, spc>>

\* Lines 1802-1803 and 2192-2211: the keys and the counter advance.
PassAdvance(w) ==
  /\ wpc[w] = "adv"
  /\ wpc' = [wpc EXCEPT ![w] = "top"]
  /\ UNCHANGED <<otherVars, stopWhenFound, endOfSearch, isRunning, hasStarted, gpuOk,
                 passes, spc>>

\* Lines 1807 and 2222: ph->isRunning = false
WorkerStop(w) ==
  /\ wpc[w] = "exit"
  /\ isRunning' = [isRunning EXCEPT ![w] = FALSE]
  /\ wpc' = [wpc EXCEPT ![w] = "stopped"]
  /\ UNCHANGED <<otherVars, stopWhenFound, endOfSearch, hasStarted, gpuOk, passes, spc>>

WorkerStep(w) ==
  \/ WorkerInit(w)
  \/ LoopTest(w)
  \/ PassCompute(w)
  \/ PassCheck(w)
  \/ PassAdvance(w)
  \/ WorkerStop(w)

\* Lines 2367-2369: while (!hasStarted(params)) sleep
SearchWait ==
  /\ spc = "wait"
  /\ hasStartedAll
  /\ spc' = "poll"
  /\ UNCHANGED <<otherVars, stopWhenFound, endOfSearch, isRunning, hasStarted, wpc, gpuOk,
                 passes>>

\* Line 2374: while (isAlive(params)), the test succeeding
SearchPoll ==
  /\ spc = "poll"
  /\ isAlive
  /\ spc' = "sleep"
  /\ UNCHANGED <<otherVars, stopWhenFound, endOfSearch, isRunning, hasStarted, wpc, gpuOk,
                 passes>>

\* Lines 2376-2419: the body of the polling loop (sleep, rates, display)
SearchSleep ==
  /\ spc = "sleep"
  /\ spc' = "poll"
  /\ UNCHANGED <<otherVars, stopWhenFound, endOfSearch, isRunning, hasStarted, wpc, gpuOk,
                 passes>>

\* Lines 2374, 2423: the test failing, free(params), and the return
SearchReturn ==
  /\ spc = "poll"
  /\ ~isAlive
  /\ spc' = "returned"
  /\ UNCHANGED <<otherVars, stopWhenFound, endOfSearch, isRunning, hasStarted, wpc, gpuOk,
                 passes>>

InitSearch ==
  /\ EngineIdle
  /\ FoundIdle
  /\ SearchIdle
  /\ ExtraIdle
  /\ stopWhenFound \in BOOLEAN
  /\ endOfSearch = FALSE
  /\ nbFoundKey = 0
  /\ nbWarn = 0
  /\ sink = << >>

NextSearch ==
  \/ \E w \in Workers : WorkerStep(w)
  \/ SearchWait
  \/ SearchPoll
  \/ SearchSleep
  \/ SearchReturn

\* Every thread that can take a step eventually takes one.
SpecSearch ==
  /\ InitSearch
  /\ [][NextSearch]_vars
  /\ \A w \in Workers : WF_vars(WorkerStep(w))
  /\ WF_vars(SearchWait \/ SearchPoll \/ SearchSleep \/ SearchReturn)

\* C6: Search() has left its polling loop only when every worker's
\* isRunning is false.
C6_SearchReturnsWhenAllStopped ==
  spc = "returned" => \A w \in Workers : ~isRunning[w]

\* C7: while endOfSearch is true no worker starts a pass, and if
\* endOfSearch stays true from some point on, every worker eventually has
\* cleared its isRunning flag.
C7_CancellationComplete ==
  /\ [][endOfSearch => passes' = passes]_vars
  /\ (<>[]endOfSearch) => <>(\A w \in Workers : ~isRunning[w])

\* Every worker, CPU and GPU, has run at least one pass with no failure of
\* its own, endOfSearch is raised, and every worker has left its loop and
\* cleared isRunning.
C7_Witness ==
  /\ endOfSearch
  /\ \A w \in Workers : /\ ~isRunning[w]
                        /\ wpc[w] = "stopped"
                        /\ gpuOk[w]
                        /\ passes[w] >= 1

(***************************************************************************)
(* SpecCount: the workers Search() launches (lines 2314-2336) count their  *)
(* passes in counters[thId]; getCPUCount and getGPUCount read the slots.   *)
(***************************************************************************)
\* Lines 2317 and 2332: threadId = i for CPU worker i, 0x80 + i for GPU
\* worker i.
ThreadId(w) == IF w.kind = "cpu" THEN w.i ELSE GpuThreadBase + w.i

\* The workers Search() has launched.
Launched ==
  {w \in CountWorkers : w.i < (IF w.kind = "cpu" THEN nbCPUThread ELSE nbGPUThread)}

\* Lines 1803 and 2208: the keys counted per pass (STEP_SIZE * nbThread of
\* the GPU scaled to one group).
KeysPerPass == 6 * CPU_GRP_SIZE

RECURSIVE SumSlots(_, _, _)
SumSlots(base, n, c) ==
  IF n = 0 THEN 0 ELSE c[base + n - 1] + SumSlots(base, n - 1, c)

\* Lines 2274-2281
getCPUCount == SumSlots(0, nbCPUThread, counters)

\* Lines 2265-2272
getGPUCount == SumSlots(GpuThreadBase, nbGPUThread, counters)

\* Lines 1614 and 1853: counters[thId] = 0 at the start of the thread
CounterReset(w) ==
  /\ w \in Launched
  /\ cpos[w] = "new"
  /\ counters' = [counters EXCEPT ![ThreadId(w)] = 0]
  /\ cpos' = [cpos EXCEPT ![w] = "run"]
  /\ UNCHANGED <<baseVars, restOfCount, nbCPUThread, nbGPUThread, cadds>>

\* Lines 1803 and 2195-2208: counters[thId] += keys of the pass
CounterAdd(w) ==
  /\ w \in Launched
  /\ cpos[w] = "run"
  /\ cadds[w] < MaxAdds
  /\ counters' = [counters EXCEPT ![ThreadId(w)] = @ + KeysPerPass]
  /\ cadds' = [cadds EXCEPT ![w] = @ + 1]
  /\ UNCHANGED <<baseVars, restOfCount, nbCPUThread, nbGPUThread, cpos>>

\* Lines 2290-2300: the thread numbers are taken as given, counters zeroed.
InitCount ==
  /\ EngineIdle
  /\ FoundIdle
  /\ SearchIdle
  /\ stopWhenFound = FALSE
  /\ endOfSearch = FALSE
  /\ nbFoundKey = 0
  /\ nbWarn = 0
  /\ sink = << >>
  /\ nbCPUThread \in 0 .. MaxCpuThreads
  /\ nbGPUThread \in 0 .. MaxGpuThreads
  /\ counters = [sl \in Slots |-> 0]
  /\ cpos = [w \in CountWorkers |-> "new"]
  /\ cadds = [w \in CountWorkers |-> 0]
  /\ RestIdleCount

NextCount ==
  \E w \in CountWorkers :
    \/ CounterReset(w)
    \/ CounterAdd(w)

SpecCount == InitCount /\ [][NextCount]_vars

RECURSIVE SumAdds(_)
SumAdds(ws) ==
  IF ws = {} THEN 0
  ELSE LET w == CHOOSE x \in ws : TRUE
       IN cadds[w] * KeysPerPass + SumAdds(ws \ {w})

\* C11: no two launched workers write the same counters slot, and
\* getCPUCount() + getGPUCount() is the number of keys the workers counted,
\* each worker's slot once.
C11_CounterSlotPerWorker ==
  /\ \A w1, w2 \in Launched : ThreadId(w1) = ThreadId(w2) => w1 = w2
  /\ getCPUCount + getGPUCount = SumAdds(Launched)

(***************************************************************************)
(* SpecKeys: the CPU threads take their base keys (getCPUStartingKey),     *)
(* advance them pass by pass, and take new ones on a rekey request.        *)
(***************************************************************************)
\* Line 1622: getCPUStartingKey(thId, key, startP) at the start of thread t
KeyStart(t) ==
  /\ tpos[t] = "new"
  /\ \E k \in StartingKeys(t) :
       /\ tkey' = [tkey EXCEPT ![t] = k]
       /\ tbase' = [tbase EXCEPT ![t] = k]
  /\ tpos' = [tpos EXCEPT ![t] = "run"]
  /\ UNCHANGED <<baseVars, restOfKeys>>

\* Line 1802: key.Add(CPU_GRP_SIZE) at the end of a pass
KeyPass(t) ==
  /\ tpos[t] = "run"
  /\ tkey[t] - tbase[t] < MaxScanPasses * CPU_GRP_SIZE
  /\ tkey' = [tkey EXCEPT ![t] = @ + CPU_GRP_SIZE]
  /\ UNCHANGED <<baseVars, restOfKeys, tbase, tpos>>

\* Lines 1640-1643: a rekey request (made only when rekey > 0, line 2409)
\* is served at the head of a pass.
KeyRekey(t) ==
  /\ tpos[t] = "run"
  /\ rekey > 0
  /\ \E k \in StartingKeys(t) :
       /\ tkey' = [tkey EXCEPT ![t] = k]
       /\ tbase' = [tbase EXCEPT ![t] = k]
  /\ UNCHANGED <<baseVars, restOfKeys, tpos>>

\* Start keys the threads of SpecKeys are given (lines 447-448).
KeyStarts == {0, 5, N - 1}

InitKeys ==
  /\ rekey \in {0, 1}
  /\ startKey \in KeyStarts
  /\ startPubKey = ZeroPt
  /\ searchMode = "compressed"
  /\ key = 0
  /\ startP = ZeroPt
  /\ pts = [j \in 0 .. (CPU_GRP_SIZE - 1) |-> ZeroPt]
  /\ wr = [j \in 0 .. (CPU_GRP_SIZE - 1) |-> 0]
  /\ cpc = "done"
  /\ ci = 0
  /\ nPass = 0
  /\ rekeyRequest = FALSE
  /\ counter = 0
  /\ patternFound = FALSE
  /\ stopWhenFound = FALSE
  /\ endOfSearch = FALSE
  /\ nbFoundKey = 0
  /\ nbWarn = 0
  /\ sink = << >>
  /\ FoundIdle
  /\ SearchIdle
  /\ RestIdleKeys
  /\ KeyIdle

NextKeys ==
  \E t \in KeyThreads :
    \/ KeyStart(t)
    \/ KeyPass(t)
    \/ KeyRekey(t)

SpecKeys == InitKeys /\ [][NextKeys]_vars

\* Keys thread t has scanned from its base key.
Scanned(t) == tkey[t] - tbase[t]

\* The base keys are startKey + (threadId << 64) and the ranges scanned
\* from them by distinct threads, each shorter than 2^64, are disjoint.
BaseKeysAreOffsets ==
  /\ \A t \in KeyThreads : tpos[t] = "run" => tbase[t] = startKey + t * KeyShift
  /\ \A t1, t2 \in KeyThreads :
       (/\ t1 # t2
        /\ tpos[t1] = "run" /\ tpos[t2] = "run"
        /\ Scanned(t1) < KeyShift /\ Scanned(t2) < KeyShift)
         => /\ tbase[t1] # tbase[t2]
            /\ \/ tbase[t1] + Scanned(t1) <= tbase[t2]
               \/ tbase[t2] + Scanned(t2) <= tbase[t1]

\* C12 as stated: every CPU worker's base key is startKey + (threadId << 64),
\* distinct workers have distinct base keys and disjoint scanned ranges.
C12_BaseKeysDisjoint == BaseKeysAreOffsets

\* C12, amended: the same, when the search runs without rekeying
\* (rekey = 0).
C12_BaseKeysDisjointWithoutRekey == (rekey = 0) => BaseKeysAreOffsets

\* Without rekeying, every thread has scanned as far as it can with fewer
\* than 2^64 keys.
C12_Witness ==
  /\ rekey = 0
  /\ \A t \in KeyThreads :
       /\ tpos[t] = "run"
       /\ Scanned(t) < KeyShift
       /\ Scanned(t) + CPU_GRP_SIZE >= KeyShift

(***************************************************************************)
(* SpecRekey: Search() requests new keys (lines 2409-2415) while the CPU   *)
(* threads start, test and clear their rekeyRequest flag statement by      *)
(* statement (lines 1635-1643).                                            *)
(***************************************************************************)
\* getCPUCount() over the threads of SpecRekey (line 2397).
RECURSIVE RekeyCount(_)
RekeyCount(n) == IF n = 0 THEN 0 ELSE rkCount[n - 1] + RekeyCount(n - 1)

\* Line 1622: the first base key, taken before the thread reports its start.
RkFirstKey(t) ==
  /\ rkPos[t] = "new"
  /\ rkGen' = [rkGen EXCEPT ![t] = @ + 1]
  /\ rkPos' = [rkPos EXCEPT ![t] = "keyed"]
  /\ UNCHANGED <<baseVars, restOfRekey, thRekeyRequest, thHasStarted, rkCount, rkSet, lastRekey>>

\* Line 1635: ph->hasStarted = true
RkStarted(t) ==
  /\ rkPos[t] = "keyed"
  /\ thHasStarted' = [thHasStarted EXCEPT ![t] = TRUE]
  /\ rkPos' = [rkPos EXCEPT ![t] = "started"]
  /\ UNCHANGED <<baseVars, restOfRekey, thRekeyRequest, rkCount, rkGen, rkSet, lastRekey>>

\* Line 1636: ph->rekeyRequest = false
RkInitClear(t) ==
  /\ rkPos[t] = "started"
  /\ thRekeyRequest' = [thRekeyRequest EXCEPT ![t] = FALSE]
  /\ rkPos' = [rkPos EXCEPT ![t] = "head"]
  /\ UNCHANGED <<baseVars, restOfRekey, thHasStarted, rkCount, rkGen, rkSet, lastRekey>>

\* Line 1640: if (ph->rekeyRequest)
RkTest(t) ==
  /\ rkPos[t] = "head"
  /\ rkPos' = [rkPos EXCEPT ![t] = IF thRekeyRequest[t] THEN "refresh" ELSE "pass"]
  /\ UNCHANGED <<baseVars, restOfRekey, thRekeyRequest, thHasStarted, rkCount, rkGen, rkSet, lastRekey>>

\* Line 1641: getCPUStartingKey(thId, key, startP)
RkRefresh(t) ==
  /\ rkPos[t] = "refresh"
  /\ rkGen' = [rkGen EXCEPT ![t] = @ + 1]
  /\ rkPos' = [rkPos EXCEPT ![t] = "clear"]
  /\ UNCHANGED <<baseVars, restOfRekey, thRekeyRequest, thHasStarted, rkCount, rkSet, lastRekey>>

\* Line 1642: ph->rekeyRequest = false
RkClear(t) ==
  /\ rkPos[t] = "clear"
  /\ thRekeyRequest' = [thRekeyRequest EXCEPT ![t] = FALSE]
  /\ rkPos' = [rkPos EXCEPT ![t] = "pass"]
  /\ UNCHANGED <<baseVars, restOfRekey, thHasStarted, rkCount, rkGen, rkSet, lastRekey>>

\* Lines 1645-1803: one pass, counted at line 1803.
RkPass(t) ==
  /\ rkPos[t] = "pass"
  /\ rkCount[t] < MaxRekeyPasses * KeysPerPass
  /\ rkCount' = [rkCount EXCEPT ![t] = @ + KeysPerPass]
  /\ rkPos' = [rkPos EXCEPT ![t] = "head"]
  /\ UNCHANGED <<baseVars, restOfRekey, thRekeyRequest, thHasStarted, rkGen, rkSet, lastRekey>>

\* Lines 2367-2369 and 2409-2415: once every thread has started, Search()
\* requests new keys from all of them (lines 2254-2261) when enough keys
\* were counted since the last request.
RkRequest ==
  /\ \A t \in RekeyThreads : thHasStarted[t]
  /\ rekey > 0
  /\ RekeyCount(NbWorkers) - lastRekey > RekeyUnit * rekey
  /\ thRekeyRequest' = [t \in RekeyThreads |-> TRUE]
  /\ rkSet' = rkGen
  /\ lastRekey' = RekeyCount(NbWorkers)
  /\ UNCHANGED <<baseVars, restOfRekey, thHasStarted, rkPos, rkCount, rkGen>>

InitRekey ==
  /\ rekey \in {0, 1}
  /\ startKey = 0
  /\ startPubKey = ZeroPt
  /\ searchMode = "compressed"
  /\ key = 0
  /\ startP = ZeroPt
  /\ pts = [j \in 0 .. (CPU_GRP_SIZE - 1) |-> ZeroPt]
  /\ wr = [j \in 0 .. (CPU_GRP_SIZE - 1) |-> 0]
  /\ cpc = "done"
  /\ ci = 0
  /\ nPass = 0
  /\ rekeyRequest = FALSE
  /\ counter = 0
  /\ patternFound = FALSE
  /\ stopWhenFound = FALSE
  /\ endOfSearch = FALSE
  /\ nbFoundKey = 0
  /\ nbWarn = 0
  /\ sink = << >>
  /\ FoundIdle
  /\ SearchIdle
  /\ RestIdleRekey
  /\ RekeyIdle

RekeyThreadStep(t) ==
  \/ RkFirstKey(t)
  \/ RkStarted(t)
  \/ RkInitClear(t)
  \/ RkTest(t)
  \/ RkRefresh(t)
  \/ RkClear(t)
  \/ RkPass(t)

NextRekey ==
  \/ \E t \in RekeyThreads : RekeyThreadStep(t)
  \/ RkRequest

\* The threads run while the search does not end, and Search() polls.
SpecRekey ==
  /\ InitRekey
  /\ [][NextRekey]_vars
  /\ \A t \in RekeyThreads : WF_vars(RekeyThreadStep(t))
  /\ WF_vars(RkRequest)

\* C13: every rekey request is served: a flag set by Search() is cleared
\* only after the thread has taken a new base key since the flag was set.
C13_RekeyRequestServed ==
  [][\A t \in RekeyThreads :
       (thRekeyRequest[t] /\ ~thRekeyRequest'[t]) => rkGen[t] > rkSet[t]]_vars

\* A GPU worker whose SetKeys or kernel launch failed.
GpuFailed(w) == Kind(w) = "gpu" /\ ~gpuOk[w]

\* C14: a failed kernel launch ends only that GPU worker: no CPU worker
\* leaves its loop because of it, and Search() has returned only if some
\* worker stopped for another reason than a GPU failure.
C14_GpuFailureIsLocal ==
  /\ \A w \in Workers :
       (Kind(w) = "cpu" /\ wpc[w] = "exit") => endOfSearch
  /\ spc = "returned" => \E w \in Workers : ~isRunning[w] /\ ~GpuFailed(w)

(***************************************************************************)
(* SpecReconPaths: the three host paths that rebuild a private key from a  *)
(* report, applied to the same (base key, incr, endomorphism).             *)
(***************************************************************************)
\* The multiplication by lambda^endomorphism (lines 931-941, 1186-1192,
\* 2013-2017).
MulLambda(k, endomorphism) ==
  IF endomorphism = 1 THEN ModMulK1order(k, lambda)
  ELSE IF endomorphism = 2 THEN ModMulK1order(k, lambda2)
  ELSE k

\* Lines 919-941: the scalar of checkPrivKey before the address test.
PrivKeyScalar(bkey, incr, endomorphism) ==
  MulLambda(IF incr < 0 THEN NegAddOrder(bkey + (-incr)) ELSE bkey + incr, endomorphism)

\* Lines 1174-1192: the scalar of checkStegoMask before verification.
StegoMaskScalar(bkey, incr, endomorphism) ==
  MulLambda(IF incr >= 0 THEN bkey + incr ELSE NegAddOrder(bkey + (-incr)), endomorphism)

\* Lines 1996-2023: the scalar of the mask/signature handler of FindKeyGPU.
\* keys is keys[it.thId] when the item is processed.
GpuHandlerScalar(keys, groupSize, incr, endomorphism) ==
  LET k0 == (IF incr >= 0 THEN keys + incr ELSE keys - (-incr)) - groupSize
      k1 == MulLambda(k0, endomorphism)
  IN IF incr < 0 THEN NegAddOrder(k1) ELSE k1

\* The group size of the GPU engine, scaled.
GpuGroupSize == CPU_GRP_SIZE

ReconCheckPrivKey ==
  /\ "checkPrivKey" \notin rcDone
  /\ rcOut' = [rcOut EXCEPT !["checkPrivKey"] = PrivKeyScalar(rcKey, rcIncr, rcEndo)]
  /\ rcDone' = rcDone \cup {"checkPrivKey"}
  /\ UNCHANGED <<baseVars, restOfRecon, rcKey, rcIncr, rcEndo>>

ReconCheckStegoMask ==
  /\ "checkStegoMask" \notin rcDone
  /\ rcOut' = [rcOut EXCEPT !["checkStegoMask"] = StegoMaskScalar(rcKey, rcIncr, rcEndo)]
  /\ rcDone' = rcDone \cup {"checkStegoMask"}
  /\ UNCHANGED <<baseVars, restOfRecon, rcKey, rcIncr, rcEndo>>

\* The item is processed after keys[thId] has advanced by STEP_SIZE from
\* the base key of the launch (lines 2204-2206).
ReconGpuHandler ==
  /\ "FindKeyGPU" \notin rcDone
  /\ rcOut' = [rcOut EXCEPT !["FindKeyGPU"] =
                 GpuHandlerScalar(rcKey + GpuGroupSize, GpuGroupSize, rcIncr, rcEndo)]
  /\ rcDone' = rcDone \cup {"FindKeyGPU"}
  /\ UNCHANGED <<baseVars, restOfRecon, rcKey, rcIncr, rcEndo>>

InitReconPaths ==
  /\ EngineIdle
  /\ FoundIdle
  /\ SearchIdle
  /\ RestIdleRecon
  /\ stopWhenFound = FALSE
  /\ endOfSearch = FALSE
  /\ nbFoundKey = 0
  /\ nbWarn = 0
  /\ sink = << >>
  /\ rcKey \in KeySpace
  /\ rcIncr \in (-HalfGrp) .. HalfGrp
  /\ rcEndo \in 0 .. 2
  /\ rcOut = [p \in ReconPaths |-> 0]
  /\ rcDone = {}

NextReconPaths ==
  \/ ReconCheckPrivKey
  \/ ReconCheckStegoMask
  \/ ReconGpuHandler

SpecReconPaths == InitReconPaths /\ [][NextReconPaths]_vars

\* -(k0 + |incr|) mod n, multiplied by lambda^endo.
NegatedScalar(k0, incr, endomorphism) ==
  MulLambda((N - ((k0 + (-incr)) % N)) % N, endomorphism) % N

LimbBase == 4

\* Lines 1150-1161 (Get32Bytes and the repacking) and the kernel's px[4]:
\* limb j holds bits 64j .. 64j+63 of x.
RECURSIVE Pow(_, _)
Pow(b, e) == IF e = 0 THEN 1 ELSE b * Pow(b, e - 1)
Limbs(x) == [j \in LimbIds |-> (x \div Pow(LimbBase, j)) % LimbBase]

\* a & b on one limb
AndLimb(a, b) == (a % 2) * (b % 2) + 2 * ((a \div 2) * (b \div 2))

\* Lines 1164-1170 and GPUCompute.h 544-550
MaskMatch(x) ==
  \A j \in LimbIds :
    AndLimb(Limbs(x)[j], stegoMask[j]) = AndLimb(stegoValue[j], stegoMask[j])

\* Lines 1269-1309: the six candidates of checkStegoMaskAll(key, i, p).
MaskCands(i, p) ==
  << [i |-> i, neg |-> FALSE, incr |-> i, endo |-> 0, pt |-> p],
     [i |-> i, neg |-> FALSE, incr |-> i, endo |-> 1, pt |-> Endo1(p)],
     [i |-> i, neg |-> FALSE, incr |-> i, endo |-> 2, pt |-> Endo2(p)],
     [i |-> i, neg |-> TRUE, incr |-> -i, endo |-> 0, pt |-> NegY(p)],
     [i |-> i, neg |-> TRUE, incr |-> -i, endo |-> 1, pt |-> NegY(Endo1(p))],
     [i |-> i, neg |-> TRUE, incr |-> -i, endo |-> 2, pt |-> NegY(Endo2(p))] >>

\* Lines 1145-1266: checkStegoMask on candidate c; acc carries the sink, the
\* counters and the number of comparisons made for the point.
checkStegoMask(bkey, c, acc) ==
  LET counted == [acc EXCEPT !.cmp = @ + 1]
      k1 == StegoMaskScalar(bkey, c.incr, c.endo)
      sp0 == IF c.incr < 0 /\ startPubKeySpecified THEN NegY(startPubKey) ELSE startPubKey
      sp1 == IF ~startPubKeySpecified THEN sp0
             ELSE IF c.endo = 1 THEN Endo1(sp0)
             ELSE IF c.endo = 2 THEN Endo2(sp0)
             ELSE sp0
      pa == ComputePublicKey(k1)
      p1 == IF startPubKeySpecified THEN AddDirect(pa, sp1) ELSE pa
      k2 == NegAddOrder(k1)
      pb == ComputePublicKey(k2)
      p2 == IF startPubKeySpecified THEN AddDirect(pb, NegY(sp1)) ELSE pb
      rec(k, q) == [i |-> c.i, neg |-> c.neg, incr |-> c.incr, endo |-> c.endo,
                    k |-> k, x |-> q.x]
      out(k, q) == [counted EXCEPT !.sink = Append(@, rec(k, q)),
                                   !.nb = @ + 1,
                                   !.eos = @ \/ stopWhenFound]
  IN IF ~MaskMatch(c.pt.x) THEN counted
     ELSE IF MaskMatch(p1.x) THEN out(k1, p1)
     ELSE IF MaskMatch(p2.x) THEN out(k2, p2)
     ELSE [counted EXCEPT !.warn = @ + 1]

\* Lines 1269-1309: the calls in order, ended early by endOfSearch.
RECURSIVE checkStegoMaskAll(_, _, _, _)
checkStegoMaskAll(cands, n, bkey, acc) ==
  IF n > Len(cands) \/ (n > 1 /\ acc.eos) THEN acc
  ELSE checkStegoMaskAll(cands, n + 1, bkey, checkStegoMask(bkey, cands[n], acc))

\* Lines 1780-1798, case SEARCH_STEGO: one iteration of the check loop.
CPUCheckMask ==
  /\ cpc = "check"
  /\ searchMode = "stego"
  /\ ci < CPU_GRP_SIZE
  /\ ~endOfSearch
  /\ LET acc == checkStegoMaskAll(MaskCands(ci, pts[ci]), 1, key,
                                  [nb |-> nbFoundKey, eos |-> endOfSearch,
                                   warn |-> nbWarn, sink |-> sink, cmp |-> 0])
     IN /\ nbFoundKey' = acc.nb
        /\ endOfSearch' = acc.eos
        /\ nbWarn' = acc.warn
        /\ sink' = acc.sink
        /\ cmpCpu' = [cmpCpu EXCEPT ![ci] = acc.cmp]
  /\ ci' = ci + 1
  /\ UNCHANGED <<startPubKey, rekey, startKey, searchMode, stopWhenFound, key, startP,
                 pts, wr, cpc, nPass, rekeyRequest, counter, patternFound>>
  /\ UNCHANGED <<foundVars, searchVars, restOfStego>>
  /\ UNCHANGED <<stegoValue, stegoMask, cmpGpu, gpc, gpuItems, gpuCounter>>

\* GPUCompute.h 605-660: the incr of the points of one group in the order
\* the kernel checks them: the centre, the pairs around it, the first point.
RECURSIVE GpuPairs(_)
GpuPairs(i) ==
  IF i >= hLength THEN << >>
  ELSE <<HalfGrp + (i + 1), HalfGrp - (i + 1)>> \o GpuPairs(i + 1)
GpuOrder == <<HalfGrp>> \o GpuPairs(0) \o <<0>>

\* GPUCompute.h 538-566: CheckStegoPoint(px, incr) on the next point of the
\* group; the point of incr has the x of pts[incr].
GpuCheckStegoPoint ==
  /\ searchMode = "stego"
  /\ gpc < GpuGroupSize
  /\ LET incr == GpuOrder[gpc + 1]
     IN /\ cmpGpu' = [cmpGpu EXCEPT ![incr] = @ + 1]
        /\ gpuItems' = IF MaskMatch(pts[incr].x)
                       THEN Append(gpuItems, [incr |-> incr, endo |-> 0, x |-> pts[incr].x])
                       ELSE gpuItems
  /\ gpc' = gpc + 1
  /\ UNCHANGED <<baseVars, restOfStego, stegoValue, stegoMask, cmpCpu, gpuCounter>>

\* Lines 2203-2208: the host counts the kernel's work (one GPU thread).
GpuStegoCount ==
  /\ searchMode = "stego"
  /\ gpc = GpuGroupSize
  /\ gpuCounter' = gpuCounter + 6 * GpuGroupSize
  /\ gpc' = gpc + 1
  /\ UNCHANGED <<baseVars, restOfStego, stegoValue, stegoMask, cmpCpu, cmpGpu, gpuItems>>

\* Keys of the points whose x gives the targets of SpecMask.
TargetKeys == {3, 10}
\* Masks of SpecMask: all bits, one limb, one bit, two limbs.
Masks == { [j \in LimbIds |-> 3],
           [j \in LimbIds |-> IF j = 0 THEN 3 ELSE 0],
           [j \in LimbIds |-> IF j = 1 THEN 1 ELSE 0],
           [j \in LimbIds |-> IF j >= 1 THEN 3 ELSE 0] }

InitMask ==
  /\ startPubKey = ZeroPt
  /\ rekey = 0
  /\ startKey \in 1 .. (N - CPU_GRP_SIZE)
  /\ searchMode = "stego"
  /\ stopWhenFound \in BOOLEAN
  /\ endOfSearch = FALSE
  /\ key = startKey
  /\ startP = ExpectedPoint(key + CPU_GRP_SIZE + CPU_GRP_SIZE \div 2)
  /\ pts = [j \in 0 .. (CPU_GRP_SIZE - 1) |-> ExpectedPoint(key + j)]
  /\ wr = [j \in 0 .. (CPU_GRP_SIZE - 1) |-> 1]
  /\ cpc = "check"
  /\ ci = 0
  /\ nPass = 1
  /\ rekeyRequest = FALSE
  /\ counter = 0
  /\ patternFound = FALSE
  /\ nbFoundKey = 0
  /\ nbWarn = 0
  /\ sink = << >>
  /\ FoundIdle
  /\ SearchIdle
  /\ RestIdleStego
  /\ \E t \in TargetKeys : stegoValue = Limbs(ComputePublicKey(t).x)
  /\ stegoMask \in Masks
  /\ cmpCpu = [i \in 0 .. (CPU_GRP_SIZE - 1) |-> 0]
  /\ cmpGpu = [i \in 0 .. (CPU_GRP_SIZE - 1) |-> 0]
  /\ gpc = 0
  /\ gpuItems = << >>
  /\ gpuCounter = 0

NextMask ==
  \/ CPUCheckMask
  \/ CPUAdvance
  \/ GpuCheckStegoPoint
  \/ GpuStegoCount

SpecMask == InitMask /\ [][NextMask]_vars

\* C16: in CPU mask mode without stopWhenFound, the two reports made for a
\* matching point with incr = +i and incr = -i (same endomorphism) carry
\* distinct private scalars, k and n - k.
C16_SignedReportsDistinct ==
  ~stopWhenFound =>
    \A a, b \in 1 .. Len(sink) :
      (/\ sink[a].i = sink[b].i /\ sink[a].endo = sink[b].endo
       /\ ~sink[a].neg /\ sink[b].neg)
        => /\ (sink[a].k % N) # (sink[b].k % N)
           /\ (sink[b].k % N) = (N - (sink[a].k % N)) % N

\* The points ComputeKeysStego has checked so far.
GpuChecked == {GpuOrder[n] : n \in 1 .. (IF gpc > GpuGroupSize THEN GpuGroupSize ELSE gpc)}

\* The candidates of pts[i] whose x matches under the mask.
MatchingCands(i) ==
  {n \in 1 .. 6 : MaskMatch(MaskCands(i, pts[i])[n].pt.x)}

\* The reports checkStegoMaskAll wrote for pts[i].
ReportsOf(i) == {n \in 1 .. Len(sink) : sink[n].i = i}

\* The CPU path made 6 comparisons for every point it has visited while the
\* search has not ended, and reported exactly the matching candidates.
CpuSixComparisons ==
  ~endOfSearch =>
    \A i \in 0 .. (ci - 1) :
      /\ cmpCpu[i] = 6
      /\ Cardinality(ReportsOf(i)) = Cardinality(MatchingCands(i))
      /\ \A n \in ReportsOf(i) : MaskMatch(sink[n].x)

\* C17: in mask mode every visited point gives exactly 6 mask comparisons
\* on the CPU path and on the GPU path, and a comparison hits iff
\* (x & mask) = (value & mask) on all four limbs.
C17_SixMaskComparisons ==
  /\ CpuSixComparisons
  /\ \A i \in GpuChecked : cmpGpu[i] = 6
  /\ \A n \in 1 .. Len(gpuItems) : MaskMatch(gpuItems[n].x)
  /\ \A i \in GpuChecked :
       MaskMatch(pts[i].x) => \E n \in 1 .. Len(gpuItems) : gpuItems[n].incr = i

(***************************************************************************)
(* SpecLookup: one call of CheckPoint on the tables the host built, the    *)
(* binary search taken one iteration at a time.                            *)
(***************************************************************************)
\* The 32-bit values whose 16-bit prefix is q (sPrefix and lPrefix are read
\* from the same bytes of the hash, lines 537-538).
ValuesOf(q) == {q + NbPrefix16 * e : e \in 0 .. (NbExt - 1)}

\* Line 342: sort(lit.lPrefixes): the slices are ascending.
SortedSlices(q) ==
  {s \in UNION {[1 .. n -> ValuesOf(q)] : n \in 0 .. MaxSlice} :
     \A a, b \in DOMAIN s : a < b => s[a] <= s[b]}

\* The offset of the slice of q: the slices follow the table of offsets.
RECURSIVE SliceOffset(_, _)
SliceOffset(slices, q) ==
  IF q = 0 THEN NbPrefix16 ELSE SliceOffset(slices, q - 1) + Len(slices[q - 1])

RECURSIVE ConcatSlices(_, _)
ConcatSlices(slices, n) ==
  IF n = 0 THEN << >> ELSE ConcatSlices(slices, n - 1) \o slices[n - 1]

\* lookup32 as an array indexed from 0.
Lookup32Of(slices) ==
  LET offs == [n \in 1 .. NbPrefix16 |->
                 IF Len(slices[n - 1]) = 0 THEN 0 ELSE SliceOffset(slices, n - 1)]
      all == offs \o ConcatSlices(slices, NbPrefix16)
  IN [n \in 0 .. (Len(all) - 1) |-> all[n + 1]]

\* pr0 = *(prefix_t *)(_h): the 16-bit prefix of the hash (line 56)
pr0 == l32 % NbPrefix16

\* A read of lookup32[n]; outside the array the value is undefined.
ReadLookup32(n) == IF n \in DOMAIN lookup32 THEN {lookup32[n]} ELSE 0 .. (U32 - 1)

\* Lines 55-64: the first-level lookup
CheckPointLookup ==
  /\ kpc = "start"
  /\ IF prefixTab[pr0] = 0
     THEN kpc' = "done" /\ UNCHANGED <<st, ed>>
     ELSE IF hasLookup32
     THEN /\ st' = lookup32[pr0]
          /\ ed' = (lookup32[pr0] + prefixTab[pr0] - 1) % U32
          /\ kpc' = "search"
     ELSE kpc' = "add" /\ UNCHANGED <<st, ed>>
  /\ UNCHANGED <<baseVars, restOfLookup, prefixTab, lookup32, hasLookup32, l32, mi,
                 outPos, added, stored>>

\* A variant of CheckPointSearch with the two halves exchanged.
CheckPointSearchSwapped ==
  /\ kpc = "search"
  /\ IF st <= ed
     THEN LET m == ((st + ed) % U32) \div 2
          IN /\ mi' = m
             /\ \E lmi \in ReadLookup32(m) :
                  IF l32 > lmi THEN ed' = (m + U32 - 1) % U32 /\ UNCHANGED <<st, kpc>>
                  ELSE IF l32 = lmi THEN kpc' = "add" /\ UNCHANGED <<st, ed>>
                  ELSE st' = (m + 1) % U32 /\ UNCHANGED <<ed, kpc>>
     ELSE kpc' = "done" /\ UNCHANGED <<st, ed, mi>>
  /\ UNCHANGED <<baseVars, restOfLookup, prefixTab, lookup32, hasLookup32, l32,
                 outPos, added, stored>>

\* Lines 65-77: one test of while (st <= ed) and one iteration
CheckPointSearch ==
  /\ kpc = "search"
  /\ IF st <= ed
     THEN LET m == ((st + ed) % U32) \div 2
          IN /\ mi' = m
             /\ \E lmi \in ReadLookup32(m) :
                  IF l32 < lmi THEN ed' = (m + U32 - 1) % U32 /\ UNCHANGED <<st, kpc>>
                  ELSE IF l32 = lmi THEN kpc' = "add" /\ UNCHANGED <<st, ed>>
                  ELSE st' = (m + 1) % U32 /\ UNCHANGED <<ed, kpc>>
     ELSE kpc' = "done" /\ UNCHANGED <<st, ed, mi>>
  /\ UNCHANGED <<baseVars, restOfLookup, prefixTab, lookup32, hasLookup32, l32,
                 outPos, added, stored>>

\* Lines 80-91: addItem
CheckPointAddItem ==
  /\ kpc = "add"
  /\ outPos' = outPos + 1
  /\ added' = TRUE
  /\ stored' = (outPos < MaxFound)
  /\ kpc' = "done"
  /\ UNCHANGED <<baseVars, restOfLookup, prefixTab, lookup32, hasLookup32, l32, st, ed, mi>>

InitLookup ==
  /\ EngineIdle
  /\ FoundIdle
  /\ SearchIdle
  /\ RestIdleLookup
  /\ stopWhenFound = FALSE
  /\ endOfSearch = FALSE
  /\ nbFoundKey = 0
  /\ nbWarn = 0
  /\ sink = << >>
  /\ hasLookup32 \in BOOLEAN
  /\ \E slices \in [Prefixes16 -> UNION {SortedSlices(q) : q \in Prefixes16}] :
       /\ \A q \in Prefixes16 : slices[q] \in SortedSlices(q)
       /\ prefixTab = [q \in Prefixes16 |-> Len(slices[q])]
       /\ lookup32 = IF hasLookup32 THEN Lookup32Of(slices) ELSE << >>
  /\ l32 \in UNION {ValuesOf(q) : q \in Prefixes16}
  /\ st = 0 /\ ed = 0 /\ mi = -1
  /\ kpc = "start"
  /\ outPos \in 0 .. MaxFound
  /\ added = FALSE
  /\ stored = FALSE

NextLookup ==
  \/ CheckPointLookup
  \/ CheckPointSearch
  \/ CheckPointAddItem

\* The kernel thread runs on.
SpecLookup == InitLookup /\ [][NextLookup]_vars /\ WF_vars(NextLookup)

\* The slice of the hash's prefix and whether the hash is one of its entries.
SliceIndexes == lookup32[pr0] .. (lookup32[pr0] + prefixTab[pr0] - 1)
InSlice == \E n \in SliceIndexes : lookup32[n] = l32

\* The hash is a hit of the lookup.
LookupHit ==
  /\ prefixTab[pr0] # 0
  /\ hasLookup32 => InSlice

\* The search of CheckPoint ends and probes only inside the slice.
SearchTerminatesInSlice ==
  /\ <>(kpc = "done")
  /\ [](mi # -1 => mi \in SliceIndexes)

\* C18 as stated: the search terminates, stays inside the slice, and the
\* call records an item iff the prefix is used and, with a secondary
\* table, the first 32 bits of the hash equal an entry of the slice.
C18_LookupRecordsIffHit ==
  /\ SearchTerminatesInSlice
  /\ [](kpc = "done" => (stored <=> LookupHit))

\* C18, amended: the call takes a place in out[] (atomicAdd) iff the hash
\* is a hit, and its item is stored iff the place is below maxFound.
C18_LookupAddsIffHit ==
  /\ SearchTerminatesInSlice
  /\ [](kpc = "done" => /\ added <=> LookupHit
                        /\ stored <=> (added /\ outPos - 1 < MaxFound))

\* The hash equals the last entry of a slice of full length with a
\* secondary table; the search probed the middle, then the last entry,
\* and the item was stored.
C18_Witness ==
  /\ kpc = "done"
  /\ hasLookup32
  /\ prefixTab[pr0] = MaxSlice
  /\ mi = lookup32[pr0] + MaxSlice - 1
  /\ stored

(***************************************************************************)
(* SpecTaproot: the taproot engine started at base key d - 1 with the      *)
(* target Q.x of d under the full mask.                                    *)
(***************************************************************************)
\* t = tagged_hash("TapTweak", P.x) mod n (GPUCompute.h 996-1002); a fixed
\* function of x stands for the hash.
TapTweak(x) == (7 * x + 3) % N

\* GPUCompute.h 1004-1008: Q = P + t*G
TaprootOutputKey(p) == AddDirect(p, ComputePublicKey(TapTweak(p.x)))

\* GPUCompute.h 967-974: CheckTaprootMatch
CheckTaprootMatch(x) ==
  \A j \in LimbIds : AndLimb(Limbs(x)[j], tpMask[j]) = AndLimb(tpValue[j], tpMask[j])

\* Lines 1813-1835 and 1897-1898: keys[i] is the start key, the device
\* starts at keys[i] + groupSize/2.
TaprootSetKeys ==
  /\ tpc = "new"
  /\ tpP' = ComputePublicKey(tpKeys + GpuGroupSize \div 2)
  /\ tpc' = "run"
  /\ UNCHANGED <<baseVars, restOfTaproot, tpD, tpValue, tpMask, tpKeys, tpPending,
                 tpLaunches, tpReports>>

\* Lines 1904-2211 in taproot mode: one pass of the thread's loop.  The
\* launch returns the item of the previous kernel (lines 1987-1991), the
\* host rebuilds its key (lines 1992-1994, 2026), the kernel tests the
\* device point and moves it by G (GPUCompute.h 979-1062), keys[] advance
\* by 1 (line 2199).
TaprootLaunch ==
  /\ tpc = "run"
  /\ tpLaunches < MaxLaunch
  /\ tpReports' = IF tpPending
                  THEN tpReports \cup {(tpKeys - 1 + GpuGroupSize \div 2) % N}
                  ELSE tpReports
  /\ tpPending' = CheckTaprootMatch(TaprootOutputKey(tpP).x)
  /\ tpP' = AddDirect(tpP, Gpt)
  /\ tpKeys' = tpKeys + 1
  /\ tpLaunches' = tpLaunches + 1
  /\ UNCHANGED <<baseVars, restOfTaproot, tpD, tpValue, tpMask, tpc>>

\* The scalars d of SpecTaproot: every point the engine visits is affine.
TaprootScalars == 2 .. (N - 1 - GpuGroupSize \div 2 - MaxLaunch)

InitTaproot ==
  /\ EngineIdle
  /\ FoundIdle
  /\ SearchIdle
  /\ RestIdleTaproot
  /\ stopWhenFound = FALSE
  /\ endOfSearch = FALSE
  /\ nbFoundKey = 0
  /\ nbWarn = 0
  /\ sink = << >>
  /\ tpD \in TaprootScalars
  /\ tpValue = Limbs(TaprootOutputKey(ComputePublicKey(tpD)).x)
  /\ tpMask = [j \in LimbIds |-> LimbBase - 1]
  /\ tpKeys = tpD - 1
  /\ tpP = ZeroPt
  /\ tpPending = FALSE
  /\ tpLaunches = 0
  /\ tpReports = {}
  /\ tpc = "new"

NextTaproot ==
  \/ TaprootSetKeys
  \/ TaprootLaunch

SpecTaproot == InitTaproot /\ [][NextTaproot]_vars

\* C19: started with base key d - 1 and the full x of Q = d*G + t*G as the
\* target, the engine has reported a hit whose reconstructed scalar is d
\* once the item of its first kernel has been retrieved.
C19_TaprootReconstructsD ==
  tpLaunches >= 2 => tpD \in tpReports

(***************************************************************************)
(* SpecCtor: the constructor in address mode without wildcards, case       *)
(* sensitive: initPrefix on each supplied prefix, then the test of         *)
(* nbPrefix.                                                               *)
(***************************************************************************)
\* A prefix by what initPrefix looks at: the address type of its first
\* character ("none": not 1, 3 or bc1q) and its form ("short": fewer than
\* 2 characters; "bad": not decodable, too long, unreachable).
PrefixKinds == [atype : {"P2PKH", "P2SH", "none"}, form : {"ok", "short", "bad"}]

\* Lines 479-518 and the decoding that follows: the result of initPrefix and
\* the searchType it leaves.
initPrefix(prefix, sType) ==
  IF prefix.form = "short" THEN [ok |-> FALSE, sType |-> sType]
  ELSE IF prefix.atype = "none" THEN [ok |-> FALSE, sType |-> sType]
  ELSE LET t == IF sType = "none" THEN prefix.atype ELSE sType
       IN IF prefix.atype # t THEN [ok |-> FALSE, sType |-> t]
          ELSE IF prefix.form = "bad" THEN [ok |-> FALSE, sType |-> t]
          ELSE [ok |-> TRUE, sType |-> t]

\* Lines 228-311: one iteration of the loop over inputPrefixes
CtorLoop ==
  /\ ctorPc = "loop"
  /\ ip <= Len(inputPrefixes)
  /\ LET r == initPrefix(inputPrefixes[ip], searchType)
     IN /\ searchType' = r.sType
        /\ nbPrefix' = IF r.ok THEN nbPrefix + 1 ELSE nbPrefix
        /\ ignored' = IF r.ok THEN ignored ELSE ignored \cup {ip}
  /\ ip' = ip + 1
  /\ UNCHANGED <<baseVars, restOfCtor, inputPrefixes, ctorPc>>

\* Lines 228, 313-314: the loop ends
CtorLoopEnd ==
  /\ ctorPc = "loop"
  /\ ip > Len(inputPrefixes)
  /\ ctorPc' = "check"
  /\ UNCHANGED <<baseVars, restOfCtor, inputPrefixes, ip, nbPrefix, searchType, ignored>>

\* Lines 324-327: nothing to search: exit(1); otherwise construction goes on
CtorCheck ==
  /\ ctorPc = "check"
  /\ ctorPc' = IF nbPrefix = 0 THEN "exit" ELSE "ready"
  /\ UNCHANGED <<baseVars, restOfCtor, inputPrefixes, ip, nbPrefix, searchType, ignored>>

InitCtor ==
  /\ EngineIdle
  /\ FoundIdle
  /\ SearchIdle
  /\ RestIdleCtor
  /\ stopWhenFound = FALSE
  /\ endOfSearch = FALSE
  /\ nbFoundKey = 0
  /\ nbWarn = 0
  /\ sink = << >>
  /\ inputPrefixes \in UNION {[1 .. n -> PrefixKinds] : n \in 0 .. MaxPrefixes}
  /\ ip = 1
  /\ nbPrefix = 0
  /\ searchType = "none"
  /\ ignored = {}
  /\ ctorPc = "loop"

NextCtor ==
  \/ CtorLoop
  \/ CtorLoopEnd
  \/ CtorCheck

SpecCtor == InitCtor /\ [][NextCtor]_vars

\* A prefix that is not a well-formed address prefix.
InvalidPrefix(prefix) == prefix.form # "ok" \/ prefix.atype = "none"

\* C20: construction ends in exit(1), and in nothing else, whenever a
\* supplied prefix is invalid or no prefix was supplied.
C20_InitFailsOnInvalidPrefix ==
  (\/ Len(inputPrefixes) = 0
   \/ \E n \in 1 .. Len(inputPrefixes) : InvalidPrefix(inputPrefixes[n]))
     => ctorPc # "ready"


(***************************************************************************)
(* FindKeyGPU in mask/sig mode (Vanity.cpp 1896-1925, 1980-2023,           *)
(* 2192-2210).  The engine behind Launch is not part of the sources; the   *)
(* handler's comment (1996-1999) says that the results a launch returns    *)
(* are those of the previous kernel, processed after keys[] advanced by    *)
(* STEP_SIZE, and that STEP_SIZE equals the group size.  The model takes   *)
(* both from that comment.                                                 *)
(***************************************************************************)
STEP_SIZE == GpuGroupSize

TimingIncrs == {-1, 0, 1}

\* the hits a kernel launched with base keys may produce: none or one
KernelHits(base) ==
  {{}} \cup {{[base |-> base, incr |-> i]} : i \in TimingIncrs}

\* Search(): the rekey trigger (2409-2415)
TmRequest ==
  /\ tmPc # "idle"
  /\ ~tmRekeyReq
  /\ tmLaunches < MaxLaunch
  /\ tmRekeyReq' = TRUE
  /\ UNCHANGED <<baseVars, restOfTiming, tmKeys, tmFlight, tmFound, tmRecon,
                 tmLaunches, tmPc>>

\* loop head (1904-1910): a requested rekey replaces keys[] and re-sends them
TmLoopHead ==
  /\ tmPc = "top"
  /\ tmLaunches < MaxLaunch
  /\ IF tmRekeyReq
     THEN /\ tmKeys' \in RandKeys
          /\ tmRekeyReq' = FALSE
     ELSE UNCHANGED <<tmKeys, tmRekeyReq>>
  /\ tmPc' = "launch"
  /\ UNCHANGED <<baseVars, restOfTiming, tmFlight, tmFound, tmRecon, tmLaunches>>

\* LaunchStego (1919): retrieves the previous kernel's hits and starts the
\* next kernel from the current keys
TmLaunch ==
  /\ tmPc = "launch"
  /\ tmFound' = tmFlight
  /\ tmFlight' \in KernelHits(tmKeys)
  /\ tmLaunches' = tmLaunches + 1
  /\ tmPc' = "items"
  /\ UNCHANGED <<baseVars, restOfTiming, tmKeys, tmRekeyReq, tmRecon>>

\* the handler of one item (1980-2023)
TmItem ==
  /\ tmPc = "items"
  /\ \E it \in tmFound :
       /\ tmRecon' = tmRecon \cup
            {[base |-> it.base, incr |-> it.incr,
              key |-> GpuHandlerScalar(tmKeys, GpuGroupSize, it.incr, 0) % N]}
       /\ tmFound' = tmFound \ {it}
  /\ UNCHANGED <<baseVars, restOfTiming, tmKeys, tmFlight, tmRekeyReq,
                 tmLaunches, tmPc>>

\* end of the item loop
TmItemsDone ==
  /\ tmPc = "items"
  /\ tmFound = {}
  /\ tmPc' = "adv"
  /\ UNCHANGED <<baseVars, restOfTiming, tmKeys, tmFlight, tmFound, tmRekeyReq,
                 tmRecon, tmLaunches>>

\* keys[i].Add(STEP_SIZE) (2203-2207)
TmAdvance ==
  /\ tmPc = "adv"
  /\ tmKeys' = (tmKeys + STEP_SIZE) % N
  /\ tmPc' = "top"
  /\ UNCHANGED <<baseVars, restOfTiming, tmFlight, tmFound, tmRekeyReq, tmRecon,
                 tmLaunches>>

InitTiming ==
  /\ EngineIdle
  /\ FoundIdle
  /\ SearchIdle
  /\ RestIdleTiming
  /\ stopWhenFound = FALSE
  /\ endOfSearch = FALSE
  /\ nbFoundKey = 0
  /\ nbWarn = 0
  /\ sink = << >>
  /\ tmKeys \in KeyStarts
  /\ tmFlight = {}
  /\ tmFound = {}
  /\ tmRekeyReq = FALSE
  /\ tmRecon = {}
  /\ tmLaunches = 0
  /\ tmPc = "top"

NextTiming ==
  \/ TmRequest
  \/ TmLoopHead
  \/ TmLaunch
  \/ TmItem
  \/ TmItemsDone
  \/ TmAdvance

SpecTiming == InitTiming /\ [][NextTiming]_vars

\* the scalar base + incr of a hit, and the scalar with the same x
HitScalars(r) == {(r.base + r.incr) % N, (N - ((r.base + r.incr) % N)) % N}

\* C21: in GPU mask/sig mode the key reconstructed for a hit is base + incr
\* (or its negation, which has the same x), base being the keys[thId] the
\* kernel that produced the hit was launched with, whatever launches and
\* rekeys came before.
C21_ReconstructedFromLaunchBase ==
  \A r \in tmRecon : r.key \in HitScalars(r)


(***************************************************************************)
(* The found flag of a target against the records written (SpecFound).     *)
(***************************************************************************)
WrittenFor(t) ==
  \E n \in 1 .. Len(sink) : sink[n].target = t /\ sink[n].reeval

\* C22: once no worker is inside a report, a target's found flag is true
\* only if a verified match for that target has been written to the output;
\* a candidate rejected by checkPrivKey leaves its target unfound.
C22_FoundOnlyIfWritten ==
  (fmode = "prefix" /\ Quiescent) =>
     \A t \in Items : itemFound[t] => WrittenFor(t)


(***************************************************************************)
(* The workers' accesses to their TH_PARAM entry against free(params)      *)
(* (SpecSearch): the write of hasStarted, the read of rekeyRequest when a  *)
(* pass begins, and the final write of isRunning.                          *)
(***************************************************************************)
ParamsAccess(w) ==
  \/ WorkerInit(w)
  \/ LoopTest(w) /\ wpc'[w] = "pass"
  \/ WorkerStop(w)

\* C23: after Search() has freed the params array (it has returned) no
\* worker reads or writes its TH_PARAM entry.
C23_NoParamsAccessAfterFree ==
  [][spc = "returned" => \A w \in Workers : ~ParamsAccess(w)]_vars


(***************************************************************************)
(* The found-key counter against the records written (SpecFound).          *)
(***************************************************************************)
AllWorkersDone == \A w \in Workers : fpc[w] = "done"

\* C24: after all workers have stopped, nbFoundKey equals the number of
\* match records written to the output, under any interleaving of the
\* workers' reports.
C24_FoundCountEqualsRecords ==
  AllWorkersDone => nbFoundKey = Len(sink)


(***************************************************************************)
(* CheckPoint (GPUCompute.h 79-92), CheckStegoPoint (552-565) and          *)
(* ComputeKeysTaproot (1011-1023): pos = atomicAdd(out, 1), then the item  *)
(* words out[pos*ITEM_SIZE32 + 1 .. + 7] are written if pos < maxFound.    *)
(* out[0] is zero when the kernel starts.                                  *)
(***************************************************************************)
ItemWords(pos) == {pos * ITEM_SIZE32 + k : k \in 1 .. 7}

\* a variant of the guard that lets the position maxFound through
StoreGuardInclusive(pos) == pos <= StegoMaxFound

\* if (pos < maxFound)
StoreGuard(pos) == pos < StegoMaxFound

\* the match test of one point of lane l: a hit or not
LaneCheck(l) ==
  /\ lanePc[l] = "check"
  /\ laneLeft[l] > 0
  /\ \E match \in BOOLEAN :
       IF match
       THEN /\ lanePc' = [lanePc EXCEPT ![l] = "add"]
            /\ UNCHANGED laneLeft
       ELSE /\ laneLeft' = [laneLeft EXCEPT ![l] = @ - 1]
            /\ UNCHANGED lanePc
  /\ UNCHANGED <<baseVars, restOfBuffer, out0, outWords, lanePos, taken>>

\* uint32_t pos = atomicAdd(out, 1); the hits of one kernel are far fewer
\* than 2^32, so the counter does not wrap
LaneAtomicAdd(l) ==
  /\ lanePc[l] = "add"
  /\ lanePos' = [lanePos EXCEPT ![l] = out0]
  /\ out0' = out0 + 1
  /\ taken' = taken \cup {[pos |-> out0, hit |-> <<l, laneLeft[l]>>]}
  /\ lanePc' = [lanePc EXCEPT ![l] = "store"]
  /\ UNCHANGED <<baseVars, restOfBuffer, outWords, laneLeft>>

\* if (pos < maxFound) { out[pos*ITEM_SIZE32 + 1 ..] = ... }
LaneStore(l) ==
  /\ lanePc[l] = "store"
  /\ outWords' = IF StoreGuard(lanePos[l])
                 THEN [w \in DOMAIN outWords |->
                         IF w \in ItemWords(lanePos[l])
                         THEN <<l, laneLeft[l]>> ELSE outWords[w]]
                 ELSE outWords
  /\ laneLeft' = [laneLeft EXCEPT ![l] = @ - 1]
  /\ lanePc' = [lanePc EXCEPT ![l] = "check"]
  /\ UNCHANGED <<baseVars, restOfBuffer, out0, lanePos, taken>>

InitBuffer ==
  /\ EngineIdle
  /\ FoundIdle
  /\ SearchIdle
  /\ RestIdleBuffer
  /\ stopWhenFound = FALSE
  /\ endOfSearch = FALSE
  /\ nbFoundKey = 0
  /\ nbWarn = 0
  /\ sink = << >>
  /\ out0 = 0
  /\ outWords = [w \in 1 .. BufWords |-> NoHit]
  /\ lanePc = [l \in Lanes |-> "check"]
  /\ lanePos = [l \in Lanes |-> 0]
  /\ laneLeft = [l \in Lanes |-> PointsPerLane]
  /\ taken = {}

NextBuffer ==
  \E l \in Lanes :
    \/ LaneCheck(l)
    \/ LaneAtomicAdd(l)
    \/ LaneStore(l)

SpecBuffer == InitBuffer /\ [][NextBuffer]_vars

\* the hits that wrote some word of the item at pos
WritersOf(pos) == {outWords[w] : w \in ItemWords(pos)} \ {NoHit}

\* C25: every hit obtains a distinct position from out[0]; the words of an
\* item hold one hit only; no word behind the maxFound items is written;
\* out[0] counts every hit, the dropped ones included.
C25_ResultBufferSlots ==
  /\ \A a, b \in taken : a.pos = b.pos => a = b
  /\ \A pos \in 0 .. (StegoMaxFound + 1) : Cardinality(WritersOf(pos)) <= 1
  /\ \A w \in DOMAIN outWords : w > StegoMaxFound * ITEM_SIZE32 => outWords[w] = NoHit
  /\ out0 = Cardinality(taken)

\* C25 witness: all lanes are through, more hits than maxFound were counted,
\* and the maxFound items are held by distinct hits of different lanes.
C25_Witness ==
  /\ \A l \in Lanes : lanePc[l] = "check" /\ laneLeft[l] = 0
  /\ out0 > StegoMaxFound
  /\ \A pos \in 0 .. (StegoMaxFound - 1) : Cardinality(WritersOf(pos)) = 1
  /\ \E p, q \in 0 .. (StegoMaxFound - 1) :
       \E a \in WritersOf(p), b \in WritersOf(q) : a[1] # b[1]


(***************************************************************************)
(* ModInvOrder (Vanity.cpp 43-86): the extended Euclidean algorithm on     *)
(* (u, v) = (n, a), the coefficients x1, x2 kept reduced with the          *)
(* curve-order routines ModMulK1order and ModSubK1order.  Its one caller   *)
(* (line 2089) passes the curve order as n.                                *)
(***************************************************************************)
ModSubK1order(a, b) == (a - b + N) % N

\* a variant of the loop body that leaves the quotient out of x2
ModInvOrderStepNoQuotient(u, v, x1, x2) ==
  [u |-> v, v |-> u % v, x1 |-> x2, x2 |-> ModSubK1order(x1, x2)]

\* the loop body (lines 53-76)
ModInvOrderStep(u, v, x1, x2) ==
  LET q == u \div v
      r == u % v
      temp == ModMulK1order(q, x2)
  IN [u |-> v, v |-> r, x1 |-> x2, x2 |-> ModSubK1order(x1, temp)]

\* lines 52-76: one turn of while (!v.IsZero() && !v.IsOne())
ModInvLoop ==
  /\ miPc = "loop"
  /\ miV # 0 /\ miV # 1
  /\ LET s == ModInvOrderStep(miU, miV, miX1, miX2)
     IN /\ miU' = s.u
        /\ miV' = s.v
        /\ miX1' = s.x1
        /\ miX2' = s.x2
  /\ UNCHANGED <<baseVars, restOfModInv, miA, miResult, miPc>>

\* lines 78-86: the result
ModInvReturn ==
  /\ miPc = "loop"
  /\ miV = 0 \/ miV = 1
  /\ miResult' = IF miV = 1 THEN (IF miX2 < 0 THEN miX2 + N ELSE miX2) ELSE 0
  /\ miPc' = "done"
  /\ UNCHANGED <<baseVars, restOfModInv, miA, miU, miV, miX1, miX2>>

\* lines 47-50, for n the curve order and an argument a
InitModInv ==
  /\ EngineIdle
  /\ FoundIdle
  /\ SearchIdle
  /\ RestIdleModInv
  /\ stopWhenFound = FALSE
  /\ endOfSearch = FALSE
  /\ nbFoundKey = 0
  /\ nbWarn = 0
  /\ sink = << >>
  /\ miA \in 0 .. (N - 1)
  /\ miU = N
  /\ miV = miA
  /\ miX1 = 0
  /\ miX2 = 1
  /\ miResult = 0
  /\ miPc = "loop"

NextModInv ==
  \/ ModInvLoop
  \/ ModInvReturn

SpecModInv == InitModInv /\ [][NextModInv]_vars /\ WF_vars(NextModInv)

\* C26: for n the curve order, ModInvOrder terminates for every a in
\* [0, n-1]; for a >= 1 its result x is in [0, n-1] with a*x = 1 (mod n),
\* and for a = 0 it is 0.
C26_ModInvOrderIsInverse ==
  /\ <>(miPc = "done")
  /\ [](miPc = "done" =>
          /\ miResult \in 0 .. (N - 1)
          /\ IF miA = 0 THEN miResult = 0 ELSE (miA * miResult) % N = 1)

\* C26 witness: the loop ran at least twice and returned an inverse that is
\* neither 1 nor n - 1.
C26_Witness ==
  /\ miPc = "done"
  /\ miX1 \notin {0, 1}
  /\ miResult \notin {0, 1, N - 1}
  /\ (miA * miResult) % N = 1


(***************************************************************************)
(* The ECDSA branch of the GPU handler in signature mode (Vanity.cpp       *)
(* 2026-2110).                                                             *)
(***************************************************************************)
RECURSIVE ModInvOrderRun(_, _, _, _)
ModInvOrderRun(u, v, x1, x2) ==
  IF v = 0 THEN 0
  ELSE IF v = 1 THEN (IF x2 < 0 THEN x2 + N ELSE x2)
  ELSE LET s == ModInvOrderStep(u, v, x1, x2)
       IN ModInvOrderRun(s.u, s.v, s.x1, s.x2)

ModInvOrder(a, n) == ModInvOrderRun(n, a, 0, 1)

\* Int::ModAddK1order: the sum, less the order once if it reaches it
ModAddK1order(a, b) == IF a + b - N < 0 THEN a + b ELSE a + b - N

\* a variant of the normalisation that leaves s as it is
LowSSkip(s) == s

\* lines 2103-2110: s > order >> 1 is replaced by order - s
LowS(s) == IF s > N \div 2 THEN N - s ELSE s

MsgHashes == {0, 5, 17, N + 2}
SigPrivKeys == {1, 9, N - 1}

\* lines 2026, 2030-2044, 2085-2086: R = k*G, r = R.x mod n
SigNonce ==
  /\ sgPc = "nonce"
  /\ sgPub' = ComputePublicKey(sgK)
  /\ sgR' = sgPub'.x % N
  /\ sgPc' = "ecdsa"
  /\ UNCHANGED <<baseVars, restOfSig, sgK, sgZ, sgD, sgS>>

\* lines 2088-2101: s = k^-1 * (z + r*d) mod n
SigEcdsa ==
  /\ sgPc = "ecdsa"
  /\ LET k_inv == ModInvOrder(sgK, N)
         temp == ModAddK1order(ModMulK1order(sgR, sgD), sgZ)
     IN sgS' = ModMulK1order(k_inv, temp)
  /\ sgPc' = "lows"
  /\ UNCHANGED <<baseVars, restOfSig, sgK, sgZ, sgD, sgPub, sgR>>

\* lines 2103-2110
SigLowS ==
  /\ sgPc = "lows"
  /\ sgS' = LowS(sgS)
  /\ sgPc' = "done"
  /\ UNCHANGED <<baseVars, restOfSig, sgK, sgZ, sgD, sgPub, sgR>>

InitSig ==
  /\ EngineIdle
  /\ FoundIdle
  /\ SearchIdle
  /\ RestIdleSig
  /\ stopWhenFound = FALSE
  /\ endOfSearch = FALSE
  /\ nbFoundKey = 0
  /\ nbWarn = 0
  /\ sink = << >>
  /\ sgK \in 1 .. (N - 1)
  /\ sgZ \in MsgHashes
  /\ sgD \in SigPrivKeys
  /\ sgPub = ZeroPt
  /\ sgR = 0
  /\ sgS = 0
  /\ sgPc = "nonce"

NextSig ==
  \/ SigNonce
  \/ SigEcdsa
  \/ SigLowS

SpecSig == InitSig /\ [][NextSig]_vars

SignedValue == (sgZ + sgR * sgD) % N

\* C27: in ECDSA signature mode, for a nonce k # 0 the pair (r, s) has
\* r = R.x mod n for R = k*G, s*k = z + r*d or -(z + r*d) (mod n), and
\* s <= floor(n / 2).
C27_EcdsaSignature ==
  sgPc = "done" =>
    /\ sgR = ScalarMult(sgK, Gpt).x % N
    /\ \/ (sgS * sgK) % N = SignedValue
       \/ (sgS * sgK) % N = (N - SignedValue) % N
    /\ sgS \in 0 .. (N \div 2)

\* C27 witness: a signature whose s was normalised (s*k is the negated
\* value) and whose r is R.x reduced by the order.
C27_Witness ==
  /\ sgPc = "done"
  /\ sgS # 0
  /\ (sgS * sgK) % N # SignedValue
  /\ sgR # sgPub.x


(***************************************************************************)
(* StegoTarget.h: parseHexToLimbsMSB (75-106), generatePrefixMask          *)
(* (109-120), countMaskBits (165-172) and limbsToHex (175-185), on a value *)
(* of four limbs of BytesPerLimb bytes.                                    *)
(***************************************************************************)
TotalBytes == 4 * BytesPerLimb
ZeroLimbs == [j \in LimbIds |-> 0]

HexLower == <<"0", "1", "2", "3", "4", "5", "6", "7", "8", "9",
              "a", "b", "c", "d", "e", "f">>
HexUpper == <<"0", "1", "2", "3", "4", "5", "6", "7", "8", "9",
              "A", "B", "C", "D", "E", "F">>

\* lines 31-36
hexCharToInt(c) ==
  IF \E n \in 1 .. 16 : HexLower[n] = c
  THEN (CHOOSE n \in 1 .. 16 : HexLower[n] = c) - 1
  ELSE IF \E n \in 11 .. 16 : HexUpper[n] = c
  THEN (CHOOSE n \in 11 .. 16 : HexUpper[n] = c) - 1
  ELSE -1

RECURSIVE BitOr(_, _)
BitOr(a, b) ==
  IF a = 0 THEN b
  ELSE IF b = 0 THEN a
  ELSE (IF a % 2 = 1 \/ b % 2 = 1 THEN 1 ELSE 0) + 2 * BitOr(a \div 2, b \div 2)

RECURSIVE BitAnd(_, _)
BitAnd(a, b) ==
  IF a = 0 \/ b = 0 THEN 0
  ELSE (IF a % 2 = 1 /\ b % 2 = 1 THEN 1 ELSE 0) + 2 * BitAnd(a \div 2, b \div 2)

\* limbs[limb] |= byte << (byteInLimb * 8), for the byte position pos
OrByte(limbs, pos, byte) ==
  [limbs EXCEPT ![pos \div BytesPerLimb] =
     BitOr(@, byte * Pow(256, pos % BytesPerLimb))]

\* a variant of the position that fills from the least-significant byte
LsbPos(i) == i

\* int pos = 31 - i (lines 100 and 114)
MsbPos(i) == TotalBytes - 1 - i

\* the loop of parseHexToLimbsMSB from byte i on, hexIdx characters read
RECURSIVE ParseBytes(_, _, _, _, _, _)
ParseBytes(hex, len, numBytes, i, hexIdx, limbs) ==
  IF i >= numBytes THEN [ret |-> numBytes, limbs |-> limbs]
  ELSE LET odd == (len % 2 = 1 /\ i = 0)
           hi == IF odd THEN 0 ELSE hexCharToInt(hex[hexIdx + 1])
           lo == IF odd THEN hexCharToInt(hex[hexIdx + 1])
                 ELSE hexCharToInt(hex[hexIdx + 2])
           nxt == IF odd THEN hexIdx + 1 ELSE hexIdx + 2
       IN IF hi < 0 \/ lo < 0 THEN [ret |-> -1, limbs |-> limbs]
          ELSE ParseBytes(hex, len, numBytes, i + 1, nxt,
                          OrByte(limbs, MsbPos(i), hi * 16 + lo))

parseHexToLimbsMSB(hex) ==
  IF Len(hex) = 0 THEN [ret |-> 0, limbs |-> ZeroLimbs]
  ELSE LET len == IF Len(hex) > 2 * TotalBytes THEN 2 * TotalBytes ELSE Len(hex)
       IN ParseBytes(hex, len, (len + 1) \div 2, 0, 0, ZeroLimbs)

RECURSIVE MaskBytes(_, _, _)
MaskBytes(numBytes, i, mask) ==
  IF i >= numBytes THEN mask
  ELSE MaskBytes(numBytes, i + 1, OrByte(mask, MsbPos(i), 255))

generatePrefixMask(numBytes) ==
  IF numBytes <= 0 \/ numBytes > TotalBytes THEN ZeroLimbs
  ELSE MaskBytes(numBytes, 0, ZeroLimbs)

\* while (m) { count++; m &= m - 1; }
RECURSIVE PopCount(_)
PopCount(m) == IF m = 0 THEN 0 ELSE 1 + PopCount(BitAnd(m, m - 1))

RECURSIVE SumLimbCounts(_, _)
SumLimbCounts(mask, j) ==
  IF j > 3 THEN 0 ELSE PopCount(mask[j]) + SumLimbCounts(mask, j + 1)

countMaskBits(mask) == SumLimbCounts(mask, 0)

\* the byte at position pos of the limbs: (limbs[i] >> (b * 8)) & 0xFF
ByteAt(limbs, pos) ==
  BitAnd(limbs[pos \div BytesPerLimb] \div Pow(256, pos % BytesPerLimb), 255)

\* sprintf("%02x", byte)
Hex02x(byte) == <<HexLower[(byte \div 16) + 1], HexLower[(byte % 16) + 1]>>

\* limbsToHex: limbs 3 .. 0, bytes from the most significant down
RECURSIVE HexFrom(_, _)
HexFrom(limbs, pos) ==
  IF pos < 0 THEN << >> ELSE Hex02x(ByteAt(limbs, pos)) \o HexFrom(limbs, pos - 1)

limbsToHex(limbs) == HexFrom(limbs, TotalBytes - 1)

\* the two-character groups the input strings are made of
HexPairs == {<<"0", "a">>, <<"F", "3">>, <<"c", "0">>}

RECURSIVE Flatten(_)
Flatten(ps) == IF ps = << >> THEN << >> ELSE Head(ps) \o Flatten(Tail(ps))

HexInputs ==
  UNION {{Flatten(ps) : ps \in [1 .. m -> HexPairs]} : m \in 1 .. TotalBytes}

HexParse ==
  /\ hxPc = "parse"
  /\ LET r == parseHexToLimbsMSB(hxIn)
     IN /\ hxRet' = r.ret
        /\ hxValue' = r.limbs
  /\ hxPc' = "mask"
  /\ UNCHANGED <<baseVars, restOfHex, hxIn, hxMask, hxBits, hxOut>>

HexMask ==
  /\ hxPc = "mask"
  /\ hxMask' = generatePrefixMask(hxRet)
  /\ hxPc' = "count"
  /\ UNCHANGED <<baseVars, restOfHex, hxIn, hxValue, hxRet, hxBits, hxOut>>

HexCount ==
  /\ hxPc = "count"
  /\ hxBits' = countMaskBits(hxMask)
  /\ hxPc' = "print"
  /\ UNCHANGED <<baseVars, restOfHex, hxIn, hxValue, hxRet, hxMask, hxOut>>

HexPrint ==
  /\ hxPc = "print"
  /\ hxOut' = limbsToHex(hxValue)
  /\ hxPc' = "done"
  /\ UNCHANGED <<baseVars, restOfHex, hxIn, hxValue, hxRet, hxMask, hxBits>>

InitHex ==
  /\ EngineIdle
  /\ FoundIdle
  /\ SearchIdle
  /\ RestIdleHex
  /\ stopWhenFound = FALSE
  /\ endOfSearch = FALSE
  /\ nbFoundKey = 0
  /\ nbWarn = 0
  /\ sink = << >>
  /\ hxIn \in HexInputs
  /\ hxValue = ZeroLimbs
  /\ hxRet = 0
  /\ hxMask = ZeroLimbs
  /\ hxBits = 0
  /\ hxOut = << >>
  /\ hxPc = "parse"

NextHex ==
  \/ HexParse
  \/ HexMask
  \/ HexCount
  \/ HexPrint

SpecHex == InitHex /\ [][NextHex]_vars

ToLower(c) == IF hexCharToInt(c) >= 10 THEN HexLower[hexCharToInt(c) + 1] ELSE c

\* the byte number i (from 0) written in the hex string h
ByteOfHex(h, i) == hexCharToInt(h[2 * i + 1]) * 16 + hexCharToInt(h[2 * i + 2])

\* C28: for a hex string h of m bytes, parseHexToLimbsMSB returns m and
\* puts the bytes of h in the m most-significant bytes of the value, the
\* bytes generatePrefixMask(mask, m) selects: value & mask = value, the mask
\* has 8m bits, and limbsToHex(value) is h in lower case followed by zeros.
C28_MaskTargetAligned ==
  hxPc = "done" =>
    LET m == Len(hxIn) \div 2
    IN /\ hxRet = m
       /\ \A i \in 0 .. (TotalBytes - 1) :
            /\ ByteAt(hxValue, TotalBytes - 1 - i) =
                 (IF i < m THEN ByteOfHex(hxIn, i) ELSE 0)
            /\ ByteAt(hxMask, TotalBytes - 1 - i) = (IF i < m THEN 255 ELSE 0)
       /\ \A j \in LimbIds : BitAnd(hxValue[j], hxMask[j]) = hxValue[j]
       /\ hxBits = 8 * m
       /\ hxOut = [n \in 1 .. (2 * TotalBytes) |->
                     IF n <= Len(hxIn) THEN ToLower(hxIn[n]) ELSE "0"]

\* C28 witness: a string with an upper-case digit that fills one limb and
\* part of the next was parsed, masked and printed.
C28_Witness ==
  /\ hxPc = "done"
  /\ Len(hxIn) = 2 * (BytesPerLimb + 1)
  /\ hxIn[1] = "F"
  /\ hxOut[1] = "f"
  /\ hxValue[2] # 0
  /\ hxMask[1] = 0


(***************************************************************************)
(* GPUCompute.h: SECP256K1_ORDER (819-824), CompareWithOrder (828-835),    *)
(* SubtractOrder (838-846) and ModReduceOrder (850-859), on scalars of     *)
(* four limbs below LimbBase.  The order is scaled with its shape kept:    *)
(* the top limb all ones, the next all ones but the last bit, and more     *)
(* than half of the scalar range.                                          *)
(***************************************************************************)
ReduceOrderValue == 235
SECP256K1_ORDER == Limbs(ReduceOrderValue)
ScalarRange == Pow(LimbBase, 4)

LimbsValue(l) == l[0] + LimbBase * (l[1] + LimbBase * (l[2] + LimbBase * l[3]))

\* CompareWithOrder, from limb i down
RECURSIVE CompareFrom(_, _)
CompareFrom(scalar, i) ==
  IF i < 0 THEN 0
  ELSE IF scalar[i] > SECP256K1_ORDER[i] THEN 1
  ELSE IF scalar[i] < SECP256K1_ORDER[i] THEN -1
  ELSE CompareFrom(scalar, i - 1)

CompareWithOrder(scalar) == CompareFrom(scalar, 3)

\* a variant of the loop body that does not carry the borrow on
SubLimbNoBorrow(si, i, borrow) ==
  [res |-> (si - ((SECP256K1_ORDER[i] + borrow) % LimbBase) + LimbBase) % LimbBase,
   borrow |-> 0]

\* the loop body of SubtractOrder (lines 841-844) on limb i, in limb
\* arithmetic modulo LimbBase
SubLimb(si, i, borrow) ==
  LET sub == (SECP256K1_ORDER[i] + borrow) % LimbBase
      b1 == IF sub < borrow THEN 1 ELSE 0
      b2 == b1 + (IF si < sub THEN 1 ELSE 0)
  IN [res |-> (si - sub + LimbBase) % LimbBase, borrow |-> b2]

RECURSIVE SubtractFrom(_, _, _, _)
SubtractFrom(scalar, i, borrow, result) ==
  IF i > 3 THEN result
  ELSE LET s == SubLimb(scalar[i], i, borrow)
       IN SubtractFrom(scalar, i + 1, s.borrow, [result EXCEPT ![i] = s.res])

SubtractOrder(scalar) == SubtractFrom(scalar, 0, 0, [j \in LimbIds |-> 0])

\* ModReduceOrder, line 851: if (CompareWithOrder(scalar) >= 0)
RdCompare ==
  /\ rdPc = "compare"
  /\ IF CompareWithOrder(rdScalar) >= 0
     THEN /\ rdPc' = "sub"
          /\ rdBorrow' = 0
          /\ rdI' = 0
     ELSE /\ rdPc' = "done"
          /\ UNCHANGED <<rdBorrow, rdI>>
  /\ UNCHANGED <<baseVars, restOfReduce, rdS, rdScalar, rdReduced>>

\* SubtractOrder, one turn of its loop
RdSubLimb ==
  /\ rdPc = "sub"
  /\ rdI <= 3
  /\ LET s == SubLimb(rdScalar[rdI], rdI, rdBorrow)
     IN /\ rdReduced' = [rdReduced EXCEPT ![rdI] = s.res]
        /\ rdBorrow' = s.borrow
  /\ rdI' = rdI + 1
  /\ rdPc' = IF rdI = 3 THEN "copy" ELSE "sub"
  /\ UNCHANGED <<baseVars, restOfReduce, rdS, rdScalar>>

\* ModReduceOrder, lines 854-857
RdCopy ==
  /\ rdPc = "copy"
  /\ rdScalar' = rdReduced
  /\ rdPc' = "done"
  /\ UNCHANGED <<baseVars, restOfReduce, rdS, rdReduced, rdBorrow, rdI>>

InitReduce ==
  /\ EngineIdle
  /\ FoundIdle
  /\ SearchIdle
  /\ RestIdleReduce
  /\ stopWhenFound = FALSE
  /\ endOfSearch = FALSE
  /\ nbFoundKey = 0
  /\ nbWarn = 0
  /\ sink = << >>
  /\ rdS \in 0 .. (ScalarRange - 1)
  /\ rdScalar = Limbs(rdS)
  /\ rdReduced = [j \in LimbIds |-> 0]
  /\ rdBorrow = 0
  /\ rdI = 0
  /\ rdPc = "compare"

NextReduce ==
  \/ RdCompare
  \/ RdSubLimb
  \/ RdCopy

SpecReduce == InitReduce /\ [][NextReduce]_vars

\* C29: ModReduceOrder leaves, for every scalar s of four limbs, the value
\* s mod n in [0, n), by one conditional subtraction; SubtractOrder yields
\* s - n modulo the scalar range for every s, the borrow carried through
\* all limbs, the all-ones limb of n included.
C29_ModReduceOrder ==
  /\ rdPc = "done" =>
       /\ LimbsValue(rdScalar) = rdS % ReduceOrderValue
       /\ LimbsValue(rdScalar) < ReduceOrderValue
  /\ rdPc # "idle" =>
       LimbsValue(SubtractOrder(Limbs(rdS)))
         = (rdS - ReduceOrderValue + ScalarRange) % ScalarRange
  /\ rdBorrow \in {0, 1}

\* C29 witness: a scalar above n was reduced by a subtraction in which a
\* borrow crossed a limb.
C29_Witness ==
  /\ rdPc = "done"
  /\ rdS > ReduceOrderValue
  /\ rdScalar # Limbs(rdS)
  /\ rdScalar[1] # (Limbs(rdS)[1] - SECP256K1_ORDER[1] + LimbBase) % LimbBase


(***************************************************************************)
(* The address type searched against the prefixes rejected (SpecCtor).     *)
(***************************************************************************)
\* C30: a prefix that initPrefix rejects changes no state: searchType is
\* as it was before the call, so that only an accepted prefix fixes the
\* address type searched.
C30_RejectedPrefixChangesNothing ==
  [][(CtorLoop /\ ip \in ignored') => searchType' = searchType]_vars

=============================================================================
